---- MODULE Spec2Model ----
(***************************************************************************)
(* Model of scripts/originality_quality_gate.py: the originality, AI-tone  *)
(* and humanity quality gate; of the request and retry loops of            *)
(* scripts/generate_images.py; and of the line scanners of the three       *)
(* scripts/export_*_csv.py.                                                *)
(*                                                                         *)
(* Texts are sequences of characters.  A character is a string: an ASCII   *)
(* character stands for itself, a CJK character is written by its pinyin   *)
(* ("shou" "xian" for U+9996 U+5148) and CJK punctuation by an upper-case  *)
(* name ("DOU" fullwidth comma, "JU" ideographic full stop, "MAO"          *)
(* fullwidth colon, "DUN" ideographic comma).                              *)
(*                                                                         *)
(* Python floats are modelled by exact rationals [n, d] in lowest terms;   *)
(* math.sqrt results are carried by their squares (see Surd).              *)
(***************************************************************************)
EXTENDS Integers, Sequences, FiniteSets, TLC

VARIABLES
    article,     \* the article text of the call
    sources,     \* the list of source texts of the call
    thresholds,  \* min_originality, max_ai, min_humanity, strict_trace
    tables,      \* the module-level pattern lists
    calls,       \* how many times evaluate has run since its arguments were bound
    frame,       \* the local variables of the last call when it ended
    metrics,     \* what the last call returned (or raised)
    log,         \* the calls so far, in order: the arguments and what came back
    config,      \* ImageGenerator: the constructor's arguments, then self.config
    served,      \* the outcomes the API has given to the attempts, in order
    runs,        \* the calls of generate_single_sync / _generate_single_async
    semaphore,   \* the free slots of the asyncio.Semaphore of a batch
    markdown,    \* the text given to the three parsers, as its lines
    rows         \* what each parser returned for it

gatevars == <<article, sources, thresholds, tables, calls, frame, metrics, log>>

imagevars == <<config, served, runs, semaphore>>

csvvars == <<markdown, rows>>

vars == <<gatevars, imagevars, csvvars>>

\* No generator has been constructed and no request made.
ImagesIdle ==
    /\ config = [stage |-> "none"]
    /\ served = <<>>
    /\ runs = <<>>
    /\ semaphore = 0

\* No text has been given to a parser.
CsvIdle ==
    /\ markdown = <<>>
    /\ rows = [by |-> "none", out |-> <<>>]

---------------------------------------------------------------------------
(* Exact rational arithmetic standing for the float arithmetic.            *)

RECURSIVE Gcd(_, _)
Gcd(a, b) == IF b = 0 THEN a ELSE Gcd(b, a % b)

Abs(x) == IF x < 0 THEN -x ELSE x

\* The rational n/d (d > 0) in lowest terms.  A division by zero, which raises
\* ZeroDivisionError in the code, gives the undefined value (d = 0); every
\* operation on an undefined value is undefined.
Undefined == [n |-> 0, d |-> 0]

Rat(n, d) ==
    IF d = 0 THEN Undefined
    ELSE LET g == Gcd(Abs(n), d)
         IN  [n |-> n \div g, d |-> d \div g]

Int2R(i) == [n |-> i, d |-> 1]

RAdd(a, b) == Rat(a.n * b.d + b.n * a.d, a.d * b.d)
RSub(a, b) == Rat(a.n * b.d - b.n * a.d, a.d * b.d)
RMul(a, b) == Rat(a.n * b.n, a.d * b.d)
RLt(a, b) == a.d # 0 /\ b.d # 0 /\ a.n * b.d < b.n * a.d
RLe(a, b) == a.d # 0 /\ b.d # 0 /\ a.n * b.d <= b.n * a.d
RMin(a, b) == IF a.d = 0 \/ b.d = 0 THEN Undefined ELSE IF RLe(a, b) THEN a ELSE b
RMax(a, b) == IF a.d = 0 \/ b.d = 0 THEN Undefined ELSE IF RLe(a, b) THEN b ELSE a

RECURSIVE Pow10(_)
Pow10(k) == IF k = 0 THEN 1 ELSE 10 * Pow10(k - 1)

\* round(x, k) for x >= 0: the nearest multiple of 10^-k, ties to even.
Round(x, k) ==
    IF x.d = 0 THEN Undefined ELSE
    LET s == x.n * Pow10(k)
        f == s \div x.d
        r == s % x.d
        up == (2 * r > x.d) \/ (2 * r = x.d /\ f % 2 = 1)
    IN  Rat(IF up THEN f + 1 ELSE f, Pow10(k))

\* A non-negative real given by its square: the value of math.sqrt(sq).
Surd(sq) == [sq |-> sq]

\* surd < c for a rational c >= 0.
SurdLt(s, c) == RLt(s.sq, RMul(c, c))

---------------------------------------------------------------------------
(* Sequence helpers.                                                       *)

RECURSIVE SumSeq(_)
SumSeq(s) == IF s = <<>> THEN 0 ELSE Head(s) + SumSeq(Tail(s))

RECURSIVE Flatten(_)
Flatten(ss) == IF ss = <<>> THEN <<>> ELSE Head(ss) \o Flatten(Tail(ss))

\* sep.join(parts)
RECURSIVE Join(_, _)
Join(parts, sep) ==
    IF parts = <<>> THEN <<>>
    ELSE IF Len(parts) = 1 THEN parts[1]
    ELSE parts[1] \o sep \o Join(Tail(parts), sep)

Range(s) == {s[i] : i \in 1..Len(s)}

SetMin(S) == CHOOSE x \in S : \A y \in S : x <= y
SetMax(S) == CHOOSE x \in S : \A y \in S : y <= x

\* Whether the literal word w occurs in text at position i (w is not empty
\* and i is a position of text; the first character is compared first).
MatchAt(text, w, i) ==
    /\ text[i] = w[1]
    /\ i + Len(w) - 1 <= Len(text)
    /\ \A k \in 2..Len(w) : text[i + k - 1] = w[k]

\* Whether the pattern p, a sequence of character classes, matches at i (p
\* is not empty and i is a position of text).
ClassMatchAt(text, p, i) ==
    /\ text[i] \in p[1]
    /\ i + Len(p) - 1 <= Len(text)
    /\ \A k \in 2..Len(p) : text[i + k - 1] \in p[k]

\* re.search of a pattern of character classes.
Search(p, text) == \E i \in 1..Len(text) : ClassMatchAt(text, p, i)

\* How many of the match positions at count when they are taken from the left
\* and a match of length len hides the positions it covers.
RECURSIVE NonOverlapping(_, _, _)
NonOverlapping(at, len, from) ==
    LET rest == {j \in at : j >= from}
    IN  IF rest = {} THEN 0
        ELSE 1 + NonOverlapping(at, len, SetMin(rest) + len)

\* len(re.findall(p, text)): non-overlapping matches, scanning from the left.
FindAll(p, text) ==
    NonOverlapping({i \in 1..Len(text) : ClassMatchAt(text, p, i)}, Len(p), 1)

\* str.count(token): non-overlapping occurrences, scanning from the left.
Count(text, w) ==
    NonOverlapping({i \in 1..Len(text) : MatchAt(text, w, i)}, Len(w), 1)

\* token in s
Contains(text, w) == \E i \in 1..Len(text) : MatchAt(text, w, i)

---------------------------------------------------------------------------
(* Character classes and the module-level pattern lists.                   *)

\* \s (the whitespace characters the inputs are drawn from)
Whitespace ==
    {" ", "\n", "\t"}

\* [。！？；.!?;\n] of split_sentences
Terminators ==
    {"JU", "TAN", "WEN", "FEN", ".", "!", "?", ";", "\n"}

\* [一二三四五六七八九十0-9] of heading_signature
OutlineDigits ==
    {"yi", "er", "san", "si", "wu4", "liu", "qi2", "ba", "jiu", "shi8", "0", "1", "2", "3", "4", "5", "6", "7", "8", "9"}

\* [、.．)] of heading_signature
OutlineMarks ==
    {"DUN", ".", "DIAN", ")"}

\* SOURCE_TRACE_PATTERNS: regular expressions, each a sequence of character classes
SOURCE_TRACE_PATTERNS ==
    <<
      <<{"yin"}, {"yong2"}, {"yuan2"}, {"wen"}>>,  \* 引用原文
      <<{"yuan2"}, {"wen"}, {"ru"}, {"xia"}>>,  \* 原文如下
      <<{"ju2"}, {"yuan2"}, {"wen"}>>,  \* 据原文
      <<{"lai"}, {"yuan"}, {":", "MAO"}>>,  \* 来源[:]
      <<{"zhai"}, {"lu"}, {"ru"}, {"xia"}>>  \* 摘录如下
    >>

\* AI_FILLER_PATTERNS: regular expressions, each a sequence of character classes
AI_FILLER_PATTERNS ==
    <<
      <<{"shou"}, {"xian"}, {"DOU", ","}>>,  \* 首先[，,]
      <<{"qi"}, {"ci"}, {"DOU", ","}>>,  \* 其次[，,]
      <<{"zai"}, {"ci"}, {"DOU", ","}>>,  \* 再次[，,]
      <<{"zui"}, {"hou"}, {"DOU", ","}>>,  \* 最后[，,]
      <<{"zhi"}, {"de"}, {"zhu3"}, {"yi3"}, {"de2"}, {"shi7"}>>,  \* 值得注意的是
      <<{"xu"}, {"yao"}, {"zhi3"}, {"chu"}, {"de2"}, {"shi7"}>>,  \* 需要指出的是
      <<{"zong"}, {"de2"}, {"lai"}, {"shuo"}>>,  \* 总的来说
      <<{"zong2"}, {"shang"}, {"suo"}, {"shu2"}>>,  \* 综上所述
      <<{"zai2"}, {"dang"}, {"jin"}, {"she"}, {"hui"}>>,  \* 在当今社会
      <<{"zai2"}, {"zhe"}, {"ge"}, {"shi6"}, {"dai"}>>,  \* 在这个时代
      <<{"bu"}, {"ke"}, {"fou"}, {"ren"}>>,  \* 不可否认
      <<{"wu3"}, {"yong"}, {"zhi5"}, {"yi4"}>>,  \* 毋庸置疑
      <<{"you"}, {"ci2"}, {"ke"}, {"jian"}>>,  \* 由此可见
      <<{"cong"}, {"mou"}, {"zhong2"}, {"yi3"}, {"yi2"}, {"shang"}, {"shuo"}>>,  \* 从某种意义上说
      <<{"zai2"}, {"yi"}, {"ding"}, {"cheng"}, {"du"}, {"shang"}>>,  \* 在一定程度上
      <<{"fu"}, {"neng"}>>,  \* 赋能
      <<{"zhu2"}, {"li"}>>,  \* 助力
      <<{"shen"}, {"geng"}>>  \* 深耕
    >>

\* SCENE_TOKENS
SCENE_TOKENS ==
    <<
      <<"jin", "tian">>,  \* 今天
      <<"zuo2", "tian">>,  \* 昨天
      <<"ling", "chen">>,  \* 凌晨
      <<"zao", "shang">>,  \* 早上
      <<"zhong", "wu">>,  \* 中午
      <<"wan", "shang">>,  \* 晚上
      <<"zhou", "yi">>,  \* 周一
      <<"zhou", "mo2">>,  \* 周末
      <<"di", "tie">>,  \* 地铁
      <<"ban", "gong", "shi5">>,  \* 办公室
      <<"hui", "yi5", "shi5">>,  \* 会议室
      <<"chu", "zu", "wu2">>,  \* 出租屋
      <<"chu2", "fang">>,  \* 厨房
      <<"shou2", "ji2">>,  \* 手机
      <<"xiao", "xi2">>,  \* 消息
      <<"zou", "jin3">>,  \* 走进
      <<"zuo", "xia">>,  \* 坐下
      <<"tai", "tou">>,  \* 抬头
      <<"kan", "jian">>,  \* 看见
      <<"ting", "dao">>  \* 听到
    >>

\* COLLOQUIAL_TOKENS
COLLOQUIAL_TOKENS ==
    <<
      <<"ni", "ke", "neng">>,  \* 你可能
      <<"ni", "hui", "fa", "xian2">>,  \* 你会发现
      <<"shuo", "bai", "le">>,  \* 说白了
      <<"jiang", "zhen">>,  \* 讲真
      <<"xian", "bie", "ji">>,  \* 先别急
      <<"zhe", "shi2", "er2">>,  \* 这事儿
      <<"ni", "xiang2", "xiang2">>,  \* 你想想
      <<"huan", "ju", "hua", "shuo">>,  \* 换句话说
      <<"wo", "geng2", "qing", "xiang", "yu2">>,  \* 我更倾向于
      <<"wo", "de2", "pan", "duan", "shi7">>  \* 我的判断是
    >>

\* STANCE_TOKENS
STANCE_TOKENS ==
    <<
      <<"wo", "ren", "wei">>,  \* 我认为
      <<"wo", "geng2", "qing", "xiang", "yu2">>,  \* 我更倾向于
      <<"wo", "de2", "pan", "duan", "shi7">>,  \* 我的判断是
      <<"wo", "bu", "ren", "tong">>,  \* 我不认同
      <<"wo", "zhi4", "chi">>,  \* 我支持
      <<"wo", "fan", "dui">>,  \* 我反对
      <<"zai2", "wo", "kan", "lai">>  \* 在我看来
    >>

\* EMOTION_TOKENS
EMOTION_TOKENS ==
    <<
      <<"zhen2", "jing">>,  \* 震惊
      <<"fen2", "nu">>,  \* 愤怒
      <<"nan", "guo">>,  \* 难过
      <<"xin", "suan2">>,  \* 心酸
      <<"kai", "xin">>,  \* 开心
      <<"hai", "pa">>,  \* 害怕
      <<"jiao", "lv">>,  \* 焦虑
      <<"xing3", "fen">>,  \* 兴奋
      <<"yi6", "han">>,  \* 遗憾
      <<"xin", "teng">>,  \* 心疼
      <<"shi3", "wang">>,  \* 失望
      <<"qing2", "xing4">>,  \* 庆幸
      <<"xi", "huan2">>,  \* 喜欢
      <<"tao", "yan">>  \* 讨厌
    >>

\* ACADEMIC_TOKENS
ACADEMIC_TOKENS ==
    <<
      <<"suan", "fa2">>,  \* 算法
      <<"mo", "xing">>,  \* 模型
      <<"shi4", "yan2">>,  \* 实验
      <<"shu", "ju2", "ji3">>,  \* 数据集
      <<"xing5", "neng">>,  \* 性能
      <<"fang2", "fa2">>,  \* 方法
      <<"lun", "wen">>,  \* 论文
      <<"ji2", "zhi2">>,  \* 机制
      <<"jia", "gou">>,  \* 架构
      <<"xi3", "tong2">>,  \* 系统
      <<"t", "h", "e">>,  \* the
      <<"m", "o", "d", "e", "l">>,  \* model
      <<"t", "r", "a", "n", "s", "f", "o", "r", "m", "e", "r">>,  \* transformer
      <<"a", "t", "t", "e", "n", "t", "i", "o", "n">>,  \* attention
      <<"d", "a", "t", "a", "s", "e", "t">>,  \* dataset
      <<"e", "x", "p", "e", "r", "i", "m", "e", "n", "t">>  \* experiment
    >>

\* NARRATIVE_TOKENS
NARRATIVE_TOKENS ==
    <<
      <<"wo">>,  \* 我
      <<"wo", "men">>,  \* 我们
      <<"ta">>,  \* 他
      <<"ta2">>,  \* 她
      <<"na", "tian">>,  \* 那天
      <<"hou", "lai">>,  \* 后来
      <<"dang", "shi6">>,  \* 当时
      <<"hui2", "tou">>,  \* 回头
      <<"tu2", "ran">>,  \* 突然
      <<"ran", "hou">>  \* 然后
    >>

\* the patterns of template_sentence_ratio (literal words)
TEMPLATE_PATTERNS ==
    <<
      <<"zai2", "dang", "jin">>,  \* 在当今
      <<"zhi", "de", "zhu3", "yi3", "de2", "shi7">>,  \* 值得注意的是
      <<"zong2", "shang", "suo", "shu2">>,  \* 综上所述
      <<"shou", "xian">>,  \* 首先
      <<"qi", "ci">>,  \* 其次
      <<"zui", "hou">>,  \* 最后
      <<"bu", "ke", "fou", "ren">>  \* 不可否认
    >>

Lit(w) == [i \in 1..Len(w) |-> {w[i]}]

---------------------------------------------------------------------------
(* Text normalizer and segmenter.                                          *)

\* re.sub(r"\s+", "", text)
normalize(text) == SelectSeq(text, LAMBDA c : c \notin Whitespace)

\* str.strip()
strip(text) ==
    LET keep == {i \in 1..Len(text) : text[i] \notin Whitespace}
    IN  IF keep = {} THEN <<>> ELSE SubSeq(text, SetMin(keep), SetMax(keep))

\* str.lower() on one character: ASCII capitals; other characters are kept.
LowerChar(c) ==
    CASE c = "A" -> "a" [] c = "B" -> "b" [] c = "C" -> "c" [] c = "D" -> "d"
      [] c = "E" -> "e" [] c = "F" -> "f" [] c = "G" -> "g" [] c = "H" -> "h"
      [] c = "I" -> "i" [] c = "J" -> "j" [] c = "K" -> "k" [] c = "L" -> "l"
      [] c = "M" -> "m" [] c = "N" -> "n" [] c = "O" -> "o" [] c = "P" -> "p"
      [] c = "Q" -> "q" [] c = "R" -> "r" [] c = "S" -> "s" [] c = "T" -> "t"
      [] c = "U" -> "u" [] c = "V" -> "v" [] c = "W" -> "w" [] c = "X" -> "x"
      [] c = "Y" -> "y" [] c = "Z" -> "z" [] OTHER -> c

lower(text) == [i \in 1..Len(text) |-> LowerChar(text[i])]

\* re.split(r"[seps]+", text): the pieces between maximal runs of separators,
\* the empty piece before a leading and after a trailing run included.
RECURSIVE ReSplitFrom(_, _, _)
ReSplitFrom(text, seps, start) ==
    LET hit == {j \in start..Len(text) : text[j] \in seps}
    IN  IF hit = {} THEN <<SubSeq(text, start, Len(text))>>
        ELSE LET i == SetMin(hit)
                 rest == {j \in i..Len(text) : text[j] \notin seps}
                 nxt == IF rest = {} THEN Len(text) + 1 ELSE SetMin(rest)
             IN  <<SubSeq(text, start, i - 1)>> \o ReSplitFrom(text, seps, nxt)

ReSplit(text, seps) == ReSplitFrom(text, seps, 1)

split_sentences(text) ==
    LET parts == ReSplit(text, Terminators)
        stripped == [k \in 1..Len(parts) |-> strip(parts[k])]
    IN  SelectSeq(stripped, LAMBDA p : Len(p) >= 10)

\* re.split(r"\n\s*\n", text): a separator starts at a newline and runs, through
\* whitespace only, to the last newline of that whitespace run.
RECURSIVE ParaSplitFrom(_, _, _)
ParaSplitFrom(text, start, from) ==
    LET newlines == {j \in from..Len(text) : text[j] = "\n"}
    IN  IF newlines = {} THEN <<SubSeq(text, start, Len(text))>>
        ELSE LET i == SetMin(newlines)
                 nonws == {j \in (i + 1)..Len(text) : text[j] \notin Whitespace}
                 runEnd == IF nonws = {} THEN Len(text) ELSE SetMin(nonws) - 1
                 nls == {j \in (i + 1)..runEnd : text[j] = "\n"}
             IN  IF nls = {} THEN ParaSplitFrom(text, start, i + 1)
                 ELSE <<SubSeq(text, start, i - 1)>>
                        \o ParaSplitFrom(text, SetMax(nls) + 1, SetMax(nls) + 1)

split_paragraphs(text) ==
    LET parts == ParaSplitFrom(text, 1, 1)
        stripped == [k \in 1..Len(parts) |-> strip(parts[k])]
    IN  SelectSeq(stripped, LAMBDA p : p # <<>>)

\* str.splitlines() for "\n" line ends: no empty line after a final newline.
splitlines(text) ==
    LET nl == {i \in 1..Len(text) : text[i] = "\n"}
        starts == {1} \cup {i + 1 : i \in nl}
        real == {s \in starts : s <= Len(text)}
        lineAt(s) ==
            LET later == {i \in nl : i >= s}
            IN  SubSeq(text, s, IF later = {} THEN Len(text) ELSE SetMin(later) - 1)
        RECURSIVE InOrder(_)
        InOrder(S) ==
            IF S = {} THEN <<>>
            ELSE <<lineAt(SetMin(S))>> \o InOrder(S \ {SetMin(S)})
    IN  InOrder(real)

\* re.sub(r"^#+\s*", "", s)
StripHeadingMarker(s) ==
    LET body == {i \in 1..Len(s) : s[i] # "#"}
        afterHash == IF body = {} THEN Len(s) + 1 ELSE SetMin(body)
        text == {i \in afterHash..Len(s) : s[i] \notin Whitespace}
        from == IF text = {} THEN Len(s) + 1 ELSE SetMin(text)
    IN  SubSeq(s, from, Len(s))

\* re.match(r"^[digits]+[marks]", s)
IsOutlineLine(s) ==
    \E k \in 1..Len(s) :
        /\ k >= 2
        /\ \A i \in 1..(k - 1) : s[i] \in OutlineDigits
        /\ s[k] \in OutlineMarks

heading_signature(text) ==
    LET lines == splitlines(text)
        stripped == [k \in 1..Len(lines) |-> strip(lines[k])]
        entry(s) ==
            IF s # <<>> /\ s[1] = "#" THEN <<StripHeadingMarker(s)>>
            ELSE IF IsOutlineLine(s) THEN <<s>>
            ELSE <<>>
        kept == Flatten([k \in 1..Len(stripped) |-> entry(stripped[k])])
    IN  Join(kept, <<" ", "|", " ">>)

---------------------------------------------------------------------------
(* Lexical and structural similarity.                                      *)

char_ngrams(text, n) ==
    LET norm == normalize(text)
    IN  IF Len(norm) < n
        THEN (IF norm # <<>> THEN {norm} ELSE {})
        ELSE {SubSeq(norm, i, i + n - 1) : i \in 1..(Len(norm) - n + 1)}

jaccard(a, b) ==
    IF a = {} \/ b = {} THEN Int2R(0)
    ELSE LET inter == Cardinality(a \cap b)
             union == Cardinality(a \cup b)
         IN  IF union # 0 THEN Rat(inter, union) ELSE Int2R(0)

\* Length of the common run of a from i and b from j.
CommonRun(a, b, i, j) ==
    LET room == IF Len(a) - i < Len(b) - j THEN Len(a) - i + 1 ELSE Len(b) - j + 1
        differ == {t \in 0..(room - 1) : a[i + t] # b[j + t]}
    IN  IF differ = {} THEN room ELSE SetMin(differ)

\* SequenceMatcher.find_longest_match over the whole of a and b, without junk
\* (isjunk is None; autojunk only acts on a second sequence of 200 or more
\* elements, longer than any sentence or signature drawn here): the longest
\* common block, of those the one that starts earliest in a, and of those the
\* one that starts earliest in b.  <<i, j, size>>, size 0 when nothing matches.
find_longest_match(a, b) ==
    LET starts == {ij \in (1..Len(a)) \X (1..Len(b)) :
                     /\ a[ij[1]] = b[ij[2]]
                     /\ (ij[1] = 1 \/ ij[2] = 1 \/ a[ij[1] - 1] # b[ij[2] - 1])}
        blocks == {<<ij[1], ij[2], CommonRun(a, b, ij[1], ij[2])>> : ij \in starts}
    IN  IF blocks = {} THEN <<1, 1, 0>>
        ELSE LET size == SetMax({m[3] : m \in blocks})
                 longest == {m \in blocks : m[3] = size}
                 i == SetMin({m[1] : m \in longest})
                 j == SetMin({m[2] : m \in {x \in longest : x[1] = i}})
             IN  <<i, j, size>>

\* The total size of SequenceMatcher.get_matching_blocks: the longest block,
\* then the same to its left and to its right.
RECURSIVE matching_size(_, _)
matching_size(a, b) ==
    IF a = <<>> \/ b = <<>> THEN 0
    ELSE LET m == find_longest_match(a, b)
         IN  IF m[3] = 0 THEN 0
             ELSE m[3]
                  + matching_size(SubSeq(a, 1, m[1] - 1), SubSeq(b, 1, m[2] - 1))
                  + matching_size(SubSeq(a, m[1] + m[3], Len(a)),
                                  SubSeq(b, m[2] + m[3], Len(b)))

\* SequenceMatcher(None, a, b).ratio(): 2 * matches / (len(a) + len(b)), and 1.0
\* when both are empty.
ratio(a, b) ==
    IF Len(a) + Len(b) = 0 THEN Int2R(1)
    ELSE Rat(2 * matching_size(a, b), Len(a) + Len(b))

\* The largest of a non-empty set of rationals.
RSetMax(S) == CHOOSE r \in S : \A q \in S : RLe(q, r)

\* max(iterable): ValueError, here the undefined value, on an empty one.
PyMax(rs) ==
    IF DOMAIN rs = {} THEN Undefined ELSE RSetMax({rs[k] : k \in DOMAIN rs})

ReuseCutoff == Rat(85, 100)
NovelCutoff == Rat(60, 100)

\* Fault variant of sentence_reuse: the novelty test is left out, every
\* sentence counts as novel.
sentence_reuse_all_novel(article_sentences, source_sentences) ==
    IF article_sentences = <<>> \/ source_sentences = <<>>
    THEN <<Int2R(0), Int2R(1)>>
    ELSE LET best(s) ==
                 RSetMax({Int2R(0)} \cup {ratio(s, source_sentences[t]) :
                                             t \in 1..Len(source_sentences)})
             bests == {<<k, best(article_sentences[k])>> :
                          k \in 1..Len(article_sentences)}
             reused == Cardinality({kb \in bests : RLe(ReuseCutoff, kb[2])})
             novel == Len(article_sentences)
         IN  <<Rat(reused, Len(article_sentences)), Rat(novel, Len(article_sentences))>>

\* Fault variant of sentence_reuse: one cutoff, every sentence that is not
\* reused is novel.
sentence_reuse_one_cutoff(article_sentences, source_sentences) ==
    IF article_sentences = <<>> \/ source_sentences = <<>>
    THEN <<Int2R(0), Int2R(1)>>
    ELSE LET best(s) ==
                 RSetMax({Int2R(0)} \cup {ratio(s, source_sentences[t]) :
                                             t \in 1..Len(source_sentences)})
             bests == {<<k, best(article_sentences[k])>> :
                          k \in 1..Len(article_sentences)}
             reused == Cardinality({kb \in bests : RLe(ReuseCutoff, kb[2])})
             novel == Cardinality({kb \in bests : RLt(kb[2], ReuseCutoff)})
         IN  <<Rat(reused, Len(article_sentences)), Rat(novel, Len(article_sentences))>>

\* Fault variant of sentence_reuse: an empty side reports no novelty.
sentence_reuse_no_novelty(article_sentences, source_sentences) ==
    IF article_sentences = <<>> \/ source_sentences = <<>>
    THEN <<Int2R(0), Int2R(0)>>
    ELSE LET \* best starts at 0.0 and rises to the largest ratio
             best(s) ==
                 RSetMax({Int2R(0)} \cup {ratio(s, source_sentences[t]) :
                                             t \in 1..Len(source_sentences)})
             bests == {<<k, best(article_sentences[k])>> :
                          k \in 1..Len(article_sentences)}
             reused == Cardinality({kb \in bests : RLe(ReuseCutoff, kb[2])})
             novel == Cardinality({kb \in bests : RLt(kb[2], NovelCutoff)})
         IN  <<Rat(reused, Len(article_sentences)), Rat(novel, Len(article_sentences))>>

\* <<reuse ratio, novelty ratio>>
sentence_reuse(article_sentences, source_sentences) ==
    IF article_sentences = <<>> \/ source_sentences = <<>>
    THEN <<Int2R(0), Int2R(1)>>
    ELSE LET \* best starts at 0.0 and rises to the largest ratio
             best(s) ==
                 RSetMax({Int2R(0)} \cup {ratio(s, source_sentences[t]) :
                                             t \in 1..Len(source_sentences)})
             bests == {<<k, best(article_sentences[k])>> :
                          k \in 1..Len(article_sentences)}
             reused == Cardinality({kb \in bests : RLe(ReuseCutoff, kb[2])})
             novel == Cardinality({kb \in bests : RLt(kb[2], NovelCutoff)})
         IN  <<Rat(reused, Len(article_sentences)), Rat(novel, Len(article_sentences))>>

---------------------------------------------------------------------------
(* Statistical dispersion.                                                 *)

\* The variance that stddev takes the root of: sum((v - mean)^2) / len(values).
Variance(values) ==
    LET n == Len(values)
        s1 == SumSeq(values)
        s2 == SumSeq([k \in 1..n |-> values[k] * values[k]])
    IN  Rat(n * s2 - s1 * s1, n * n)

stddev(values) ==
    IF values = <<>> THEN Surd(Int2R(0))
    ELSE Surd(Variance(values))

\* stddev(values) / mean, as the root of variance / mean^2.
coef_var(values) ==
    IF values = <<>> THEN Surd(Int2R(0))
    ELSE LET s1 == SumSeq(values)
             n == Len(values)
         IN  IF s1 = 0 THEN Surd(Int2R(0))
             ELSE Surd(RMul(Variance(values), Rat(n * n, s1 * s1)))

---------------------------------------------------------------------------
(* Pattern-density matchers.                                               *)

\* for p in patterns: total += len(re.findall(p, text))
RECURSIVE count_matches(_, _)
count_matches(pats, text) ==
    IF pats = <<>> THEN 0
    ELSE FindAll(Head(pats), text) + count_matches(Tail(pats), text)

\* hits / max(1, len(norm) / 100)
\* sum(norm.count(token) for token in tokens)
RECURSIVE CountTokens(_, _)
CountTokens(norm, tokens) ==
    IF tokens = <<>> THEN 0
    ELSE Count(norm, Head(tokens)) + CountTokens(norm, Tail(tokens))

token_density(text, tokens) ==
    LET norm == normalize(text)
        hits == CountTokens(norm, tokens)
        \* max(1, len(norm) / 100), in hundredths
        per == IF Len(norm) > 100 THEN Len(norm) ELSE 100
    IN  IF norm = <<>> THEN Int2R(0)
        ELSE Rat(hits * 100, per)

\* Fault variant of lexical_diversity: no fallback for the empty text.
lexical_diversity_unguarded(text) ==
    LET norm == normalize(text)
    IN  Rat(Cardinality(Range(norm)), Len(norm))

lexical_diversity(text) ==
    LET norm == normalize(text)
    IN  IF norm = <<>> THEN Int2R(0)
        ELSE Rat(Cardinality(Range(norm)), Len(norm))

sentence_token_ratio(sentences, tokens) ==
    IF sentences = <<>> THEN Int2R(0)
    ELSE LET hit == Cardinality({k \in 1..Len(sentences) :
                        \E t \in 1..Len(tokens) : Contains(sentences[k], tokens[t])})
         IN  Rat(hit, Len(sentences))

template_sentence_ratio(sentences) ==
    IF sentences = <<>> THEN Int2R(0)
    ELSE LET hit == Cardinality({k \in 1..Len(sentences) :
                        \E t \in 1..Len(TEMPLATE_PATTERNS) :
                            Contains(sentences[k], TEMPLATE_PATTERNS[t])})
         IN  Rat(hit, Len(sentences))

\* re.search(r"首先[，,].*其次[，,].*最后[，,]", article, flags=re.S): the three
\* openers in this order, anything (newlines too) between them.
ORDERED_TEMPLATE ==
    <<
      <<{"shou"}, {"xian"}, {"DOU", ","}>>,
      <<{"qi"}, {"ci"}, {"DOU", ","}>>,
      <<{"zui"}, {"hou"}, {"DOU", ","}>>
    >>

HasOrderedTemplate(text) ==
    \E i \in 1..Len(text) :
        /\ ClassMatchAt(text, ORDERED_TEMPLATE[1], i)
        /\ \E j \in (i + Len(ORDERED_TEMPLATE[1]))..Len(text) :
               /\ ClassMatchAt(text, ORDERED_TEMPLATE[2], j)
               /\ \E k \in (j + Len(ORDERED_TEMPLATE[2]))..Len(text) :
                      ClassMatchAt(text, ORDERED_TEMPLATE[3], k)

LitAll(tokens) == [k \in 1..Len(tokens) |-> Lit(tokens[k])]

---------------------------------------------------------------------------
(* Scoring and gate engine.                                                *)

\* max(0.0, min(100.0, x))
Clamp(x) == RMax(Int2R(0), RMin(Int2R(100), x))

\* Fault variant of originality_of: the clamp of line 329 is left out.
originality_unclamped(overlap, reuse_ratio, structure_sim, trace_hits, novelty_ratio, strict_trace) ==
    LET raw == RAdd(RSub(RSub(RSub(RSub(Int2R(100), RMul(overlap, Int2R(40))),
                                   RMul(reuse_ratio, Int2R(25))),
                              RMul(structure_sim, Int2R(15))),
                         IF trace_hits > 0 THEN Int2R(10) ELSE Int2R(0)),
                    RMul(novelty_ratio, Int2R(10)))
    IN  IF strict_trace /\ trace_hits > 0 THEN Int2R(0) ELSE raw

\* Fault variant of originality_of: the novelty bonus of line 326 is left out.
originality_no_bonus(overlap, reuse_ratio, structure_sim, trace_hits, novelty_ratio, strict_trace) ==
    LET raw == RSub(RSub(RSub(RSub(Int2R(100), RMul(overlap, Int2R(40))),
                              RMul(reuse_ratio, Int2R(25))),
                         RMul(structure_sim, Int2R(15))),
                    IF trace_hits > 0 THEN Int2R(10) ELSE Int2R(0))
    IN  IF strict_trace /\ trace_hits > 0 THEN Int2R(0) ELSE Clamp(raw)

\* Fault variant of originality_of: the override of lines 330-331 does not
\* ask for strict_trace.
originality_override_always(overlap, reuse_ratio, structure_sim, trace_hits, novelty_ratio, strict_trace) ==
    IF trace_hits > 0 THEN Int2R(0)
    ELSE Clamp(RAdd(RSub(RSub(RSub(Int2R(100), RMul(overlap, Int2R(40))),
                              RMul(reuse_ratio, Int2R(25))),
                         RMul(structure_sim, Int2R(15))),
                    RMul(novelty_ratio, Int2R(10))))

\* Fault variant of originality_of: the strict override of lines 330-331 is
\* left out.
originality_no_override(overlap, reuse_ratio, structure_sim, trace_hits, novelty_ratio, strict_trace) ==
    Clamp(RAdd(RSub(RSub(RSub(RSub(Int2R(100), RMul(overlap, Int2R(40))),
                              RMul(reuse_ratio, Int2R(25))),
                         RMul(structure_sim, Int2R(15))),
                    IF trace_hits > 0 THEN Int2R(10) ELSE Int2R(0)),
               RMul(novelty_ratio, Int2R(10))))

\* Lines 322-331: the originality score before it is rounded.
originality_of(overlap, reuse_ratio, structure_sim, trace_hits, novelty_ratio, strict_trace) ==
    LET penalty_overlap == RMul(overlap, Int2R(40))
        penalty_reuse == RMul(reuse_ratio, Int2R(25))
        penalty_structure == RMul(structure_sim, Int2R(15))
        penalty_trace == IF trace_hits > 0 THEN Int2R(10) ELSE Int2R(0)
        bonus_novel == RMul(novelty_ratio, Int2R(10))
        raw == RAdd(RSub(RSub(RSub(RSub(Int2R(100), penalty_overlap),
                                   penalty_reuse),
                              penalty_structure),
                         penalty_trace),
                    bonus_novel)
    IN  IF strict_trace /\ trace_hits > 0 THEN Int2R(0) ELSE Clamp(raw)

\* Fault variant of domain_label_of: the narrative test comes first.
domain_label_narrative_first(academic_density, narrative_density) ==
    IF RLe(Rat(45, 100), narrative_density) THEN "narrative"
    ELSE IF RLe(Rat(45, 100), academic_density) THEN "academic"
    ELSE "general"

\* Lines 352-357.
domain_label_of(academic_density, narrative_density) ==
    IF RLe(Rat(45, 100), academic_density) THEN "academic"
    ELSE IF RLe(Rat(45, 100), narrative_density) THEN "narrative"
    ELSE "general"

\* Fault variant of base_filler_of: the penalty falls with the hits.
base_filler_falling(filler_hits) ==
    RSub(Int2R(35), RMin(Int2R(35), RMul(Int2R(filler_hits), Rat(35, 10))))

\* Lines 359-362.
base_filler_of(filler_hits) == RMin(Int2R(35), RMul(Int2R(filler_hits), Rat(35, 10)))

base_template_of(tpl_ratio, ordered) ==
    RAdd(RMin(Int2R(20), RMul(tpl_ratio, Int2R(50))),
         IF ordered THEN Int2R(20) ELSE Int2R(0))

\* Lines 369-376, before the domain factor.
uniformity_of(sentence_cv, paragraph_cv) ==
    (IF SurdLt(sentence_cv, Rat(28, 100)) THEN 12
     ELSE IF SurdLt(sentence_cv, Rat(38, 100)) THEN 6 ELSE 0)
    + (IF SurdLt(paragraph_cv, Rat(35, 100)) THEN 10
       ELSE IF SurdLt(paragraph_cv, Rat(50, 100)) THEN 5 ELSE 0)

\* Lines 379-382, before the domain factor.
diversity_of(lex_div) ==
    IF RLt(lex_div, Rat(11, 100)) THEN 12
    ELSE IF RLt(lex_div, Rat(14, 100)) THEN 6 ELSE 0

\* Lines 369-376 and 388: the uniformity penalty that enters the sum.
uniformity_penalty_of(domain_label, sentence_cv, paragraph_cv) ==
    IF domain_label = "academic"
    THEN RMul(Int2R(uniformity_of(sentence_cv, paragraph_cv)), Rat(45, 100))
    ELSE Int2R(uniformity_of(sentence_cv, paragraph_cv))

\* Fault variant of diversity_penalty_of: the academic label scales nothing.
diversity_penalty_unscaled(domain_label, lex_div) ==
    Int2R(diversity_of(lex_div))

\* Lines 379-382 and 389: the diversity penalty that enters the sum.
diversity_penalty_of(domain_label, lex_div) ==
    IF domain_label = "academic"
    THEN RMul(Int2R(diversity_of(lex_div)), Rat(5, 10))
    ELSE Int2R(diversity_of(lex_div))

\* Lines 385-394: the style penalty of the label.
style_of(domain_label, emotion_density, colloquial_ratio) ==
    IF domain_label = "academic"
    THEN (IF RLt(emotion_density, Rat(6, 100)) THEN 2 ELSE 0)
    ELSE (IF RLt(emotion_density, Rat(15, 100)) THEN 8 ELSE 0)
         + (IF RLt(colloquial_ratio, Rat(5, 100)) THEN 5 ELSE 0)

\* Fault variant of ai_score_of: the academic label scales nothing down.
ai_score_unscaled(filler_hits, tpl_ratio, ordered, sentence_cv, paragraph_cv, lex_div, domain_label, emotion_density, colloquial_ratio) ==
    Clamp(RAdd(RAdd(RAdd(RAdd(base_filler_of(filler_hits),
                              base_template_of(tpl_ratio, ordered)),
                         Int2R(uniformity_of(sentence_cv, paragraph_cv))),
                    Int2R(diversity_of(lex_div))),
               Int2R(style_of(domain_label, emotion_density, colloquial_ratio))))

\* Lines 359-397: the AI-tone score before it is rounded.
ai_score_of(filler_hits, tpl_ratio, ordered, sentence_cv, paragraph_cv, lex_div, domain_label, emotion_density, colloquial_ratio) ==
    LET base_filler == base_filler_of(filler_hits)
        base_template == base_template_of(tpl_ratio, ordered)
        uniformity_penalty == uniformity_penalty_of(domain_label, sentence_cv, paragraph_cv)
        diversity_penalty == diversity_penalty_of(domain_label, lex_div)
        style_penalty == Int2R(style_of(domain_label, emotion_density, colloquial_ratio))
    IN  Clamp(RAdd(RAdd(RAdd(RAdd(base_filler, base_template), uniformity_penalty),
                        diversity_penalty),
                   style_penalty))

\* Fault variant of humanity_of: the AI-tone deduction of lines 410-411 is
\* left out.
humanity_no_tone(scene_density, colloquial_ratio, stance_hits, emotion_density, sentence_variation, tpl_ratio, ai_score) ==
    LET plus == RAdd(RAdd(RAdd(RAdd(Int2R(50),
                                    RMin(Int2R(20), RMul(scene_density, Int2R(8)))),
                               RMin(Int2R(20), RMul(colloquial_ratio, Int2R(80)))),
                          RMin(Int2R(15), RMul(Int2R(stance_hits), Int2R(4)))),
                     RMin(Int2R(10), RMul(emotion_density, Int2R(3))))
        variation == IF SurdLt(sentence_variation, Int2R(6)) THEN 20
                     ELSE IF SurdLt(sentence_variation, Int2R(9)) THEN 10 ELSE 0
        template == IF RLt(Rat(2, 10), tpl_ratio) THEN 10 ELSE 0
    IN  Clamp(RSub(plus, Int2R(variation + template)))

\* Lines 399-412: the humanity score before it is rounded.
humanity_of(scene_density, colloquial_ratio, stance_hits, emotion_density, sentence_variation, tpl_ratio, ai_score) ==
    LET plus == RAdd(RAdd(RAdd(RAdd(Int2R(50),
                                    RMin(Int2R(20), RMul(scene_density, Int2R(8)))),
                               RMin(Int2R(20), RMul(colloquial_ratio, Int2R(80)))),
                          RMin(Int2R(15), RMul(Int2R(stance_hits), Int2R(4)))),
                     RMin(Int2R(10), RMul(emotion_density, Int2R(3))))
        variation == IF SurdLt(sentence_variation, Int2R(6)) THEN 20
                     ELSE IF SurdLt(sentence_variation, Int2R(9)) THEN 10 ELSE 0
        template == IF RLt(Rat(2, 10), tpl_ratio) THEN 10 ELSE 0
        tone == IF RLt(Int2R(40), ai_score) THEN 10 ELSE 0
    IN  Clamp(RSub(plus, Int2R(variation + template + tone)))

\* Line 414.
passed_of(originality, ai_score, humanity, th) ==
    /\ RLe(th.min_originality, originality)
    /\ RLe(ai_score, th.max_ai)
    /\ RLe(th.min_humanity, humanity)

\* Lines 415-420.
risk_level_of(ai_score) ==
    IF RLe(Int2R(70), ai_score) THEN "high"
    ELSE IF RLe(Int2R(40), ai_score) THEN "medium"
    ELSE "low"

\* The local variables of evaluate when it reaches its return statement.
evaluate_locals(art, srcs, th, T) ==
    LET article_ngrams == char_ngrams(art, 5)
        source_text == Join(srcs, <<"\n">>)
        source_ngrams == char_ngrams(source_text, 5)
        overlap == jaccard(article_ngrams, source_ngrams)
        article_sentences == split_sentences(art)
        source_sentences == split_sentences(source_text)
        reuse == sentence_reuse(article_sentences, source_sentences)
        sig == heading_signature(art)
        structure_sim ==
            IF srcs # <<>>
            THEN PyMax([k \in 1..Len(srcs) |-> ratio(sig, heading_signature(srcs[k]))])
            ELSE Int2R(0)
        trace_hits == count_matches(T.SOURCE_TRACE_PATTERNS, art)
        filler_hits == count_matches(T.AI_FILLER_PATTERNS, art)
        originality == originality_of(overlap, reuse[1], structure_sim, trace_hits,
                                      reuse[2], th.strict_trace)
        paragraphs == split_paragraphs(art)
        para_lengths == [k \in 1..Len(paragraphs) |-> Len(normalize(paragraphs[k]))]
        sent_lengths ==
            [k \in 1..Len(article_sentences) |-> Len(normalize(article_sentences[k]))]
        sent_std == stddev(sent_lengths)
        scene_density == token_density(art, T.SCENE_TOKENS)
        colloquial_ratio == sentence_token_ratio(article_sentences, T.COLLOQUIAL_TOKENS)
        stance_hits == count_matches(LitAll(T.STANCE_TOKENS), art)
        emotion_density == token_density(art, T.EMOTION_TOKENS)
        tpl_ratio == template_sentence_ratio(article_sentences)
        academic_density == token_density(lower(art), T.ACADEMIC_TOKENS)
        narrative_density == token_density(art, T.NARRATIVE_TOKENS)
        lex_div == lexical_diversity(art)
        sentence_cv == coef_var(sent_lengths)
        paragraph_cv == coef_var(para_lengths)
        domain_label == domain_label_of(academic_density, narrative_density)
        ordered == HasOrderedTemplate(art)
        ai_score == ai_score_of(filler_hits, tpl_ratio, ordered, sentence_cv,
                                paragraph_cv, lex_div, domain_label, emotion_density,
                                colloquial_ratio)
        humanity == humanity_of(scene_density, colloquial_ratio, stance_hits,
                                emotion_density, sent_std, tpl_ratio, ai_score)
    IN  [ originality |-> originality,
          ai_score |-> ai_score,
          humanity |-> humanity,
          overlap |-> overlap,
          reuse_ratio |-> reuse[1],
          structure_sim |-> structure_sim,
          novelty_ratio |-> reuse[2],
          trace_hits |-> trace_hits,
          filler_hits |-> filler_hits,
          scene_density |-> scene_density,
          colloquial_ratio |-> colloquial_ratio,
          sentence_variation |-> sent_std,
          stance_hits |-> stance_hits,
          emotion_density |-> emotion_density,
          tpl_ratio |-> tpl_ratio,
          ordered |-> ordered,
          lex_div |-> lex_div,
          sentence_cv |-> sentence_cv,
          paragraph_cv |-> paragraph_cv,
          academic_density |-> academic_density,
          narrative_density |-> narrative_density,
          domain_label |-> domain_label,
          risk_level |-> risk_level_of(ai_score),
          passed |-> passed_of(originality, ai_score, humanity, th) ]

\* Lines 421-445: the Metrics record built from the locals.  The three roots
\* (sentence_variation, sentence_cv, paragraph_cv) are reported by their exact
\* squares; every other float is rounded as the code rounds it.
MetricsOf(loc) ==
    [ originality_score |-> Round(loc.originality, 2),
      ai_tone_score |-> Round(loc.ai_score, 2),
      humanity_score |-> Round(loc.humanity, 2),
      ngram_overlap |-> Round(loc.overlap, 4),
      sentence_reuse_ratio |-> Round(loc.reuse_ratio, 4),
      structure_similarity |-> Round(loc.structure_sim, 4),
      novelty_ratio |-> Round(loc.novelty_ratio, 4),
      source_trace_hits |-> loc.trace_hits,
      ai_filler_hits |-> loc.filler_hits,
      scene_density |-> Round(loc.scene_density, 4),
      colloquial_ratio |-> Round(loc.colloquial_ratio, 4),
      sentence_variation |-> loc.sentence_variation,
      stance_hits |-> loc.stance_hits,
      emotion_density |-> Round(loc.emotion_density, 4),
      template_sentence_ratio |-> Round(loc.tpl_ratio, 4),
      lexical_diversity |-> Round(loc.lex_div, 4),
      sentence_cv |-> loc.sentence_cv,
      paragraph_cv |-> loc.paragraph_cv,
      academic_density |-> Round(loc.academic_density, 4),
      narrative_density |-> Round(loc.narrative_density, 4),
      domain_label |-> loc.domain_label,
      ai_risk_level |-> loc.risk_level,
      passed |-> loc.passed ]

\* Whether the call raised: some division or max() had no value.
Raised(loc) ==
    \/ \E f \in {"originality", "ai_score", "humanity", "overlap", "reuse_ratio",
                 "structure_sim", "novelty_ratio", "scene_density",
                 "colloquial_ratio", "emotion_density", "tpl_ratio", "lex_div",
                 "academic_density", "narrative_density"} : loc[f].d = 0
    \/ \E f \in {"sentence_variation", "sentence_cv", "paragraph_cv"} : loc[f].sq.d = 0

Exception == [exception |-> "raised"]

evaluate(art, srcs, th, T) ==
    LET loc == evaluate_locals(art, srcs, th, T)
    IN  IF Raised(loc) THEN Exception ELSE MetricsOf(loc)

---------------------------------------------------------------------------
(* The module namespace: the pattern lists as evaluate finds them.         *)

ModuleTables ==
    [ SOURCE_TRACE_PATTERNS |-> SOURCE_TRACE_PATTERNS,
      AI_FILLER_PATTERNS |-> AI_FILLER_PATTERNS,
      SCENE_TOKENS |-> SCENE_TOKENS,
      COLLOQUIAL_TOKENS |-> COLLOQUIAL_TOKENS,
      STANCE_TOKENS |-> STANCE_TOKENS,
      EMOTION_TOKENS |-> EMOTION_TOKENS,
      ACADEMIC_TOKENS |-> ACADEMIC_TOKENS,
      NARRATIVE_TOKENS |-> NARRATIVE_TOKENS ]

---------------------------------------------------------------------------
(* The texts and thresholds evaluate is called with.                       *)

\* How many blocks an article is made of at most.
MaxBlocks == 2
\* How many source texts a call is given at most.
MaxSources == 1
\* How many times a long article repeats its sentence at most.
MaxRepeat == 9
\* How many calls a session of several calls is made of.
MaxLog == 3

\* 山水木火土金石田禾竹。
Plain ==
    <<"shan", "shui", "mu", "huo", "tu", "jin2", "shi", "tian2", "he",
      "zhu", "JU">>

\* 首先，山水其次，木火最后，土金模型开心禾竹日月星云。
Lead ==
    <<"shou", "xian", "DOU", "shan", "shui", "qi", "ci", "DOU", "mu", "huo",
      "zui", "hou", "DOU", "tu", "jin2", "mo", "xing", "kai", "xin", "he",
      "zhu", "ri", "yue", "xing2", "yun", "JU">>

\* 来源：日月星云风雨雪。
Trace ==
    <<"lai", "yuan", "MAO", "ri", "yue", "xing2", "yun", "feng", "yu", "xue",
      "JU">>

\* 深耕深耕深耕深耕深耕深耕。
Filler ==
    <<"shen", "geng", "shen", "geng", "shen", "geng", "shen", "geng",
      "shen", "geng", "shen", "geng", "JU">>

\* 模型
Model ==
    <<"mo", "xing">>

\* 我讲真今天开心我认为山水木。
Story ==
    <<"wo", "jiang", "zhen", "jin", "tian", "kai", "xin", "wo", "ren",
      "wei", "shan", "shui", "mu", "JU">>

\* a paragraph break
Para ==
    <<"\n", "\n">>

\* # 山水 and a line break
Heading ==
    <<"#", " ", "shan", "shui", "\n">>

Blocks == {Plain, Lead, Trace, Filler, Story, Para, Heading}

\* The sequences of at most n elements of S.
RECURSIVE SeqsUpTo(_, _)
SeqsUpTo(S, n) ==
    IF n = 0 THEN {<<>>}
    ELSE LET shorter == SeqsUpTo(S, n - 1)
         IN  shorter \cup {<<x>> \o s : x \in S, s \in {t \in shorter : Len(t) = n - 1}}

RECURSIVE Repeat(_, _)
Repeat(text, k) == IF k = 0 THEN <<>> ELSE text \o Repeat(text, k - 1)

\* Articles of a few blocks.
ShortArticles == {Flatten(bs) : bs \in SeqsUpTo(Blocks, MaxBlocks)}

\* Articles of two paragraphs: the enumerating lead sentence and a plain
\* sentence, then j plain sentences.
LongArticles == {Lead \o Plain \o Para \o Repeat(Plain, j) : j \in 1..MaxRepeat}

\* Articles of j filler sentences, bare or opened by an academic term.
DenseArticles ==
    {opening \o Repeat(Filler, j) : opening \in {<<>>, Model}, j \in 1..MaxRepeat}

Articles == ShortArticles \cup LongArticles \cup DenseArticles

\* 山水木火土金日月星云。 (6 of its 10 characters are those of Plain, in place)
Near ==
    <<"shan", "shui", "mu", "huo", "tu", "jin2", "ri", "yue", "xing2", "yun", "JU">>

SourceTexts == {<<>>, Plain, Heading \o Story \o Near}

SourceLists == SeqsUpTo(SourceTexts, MaxSources)

\* The defaults of the command line (--min-originality 70 --max-ai-tone 30
\* --min-humanity 60), with and without --strict-source-trace, and a stricter
\* originality threshold.
ThresholdSets ==
    { [min_originality |-> Int2R(70), max_ai |-> Int2R(30),
       min_humanity |-> Int2R(60), strict_trace |-> FALSE],
      [min_originality |-> Int2R(70), max_ai |-> Int2R(30),
       min_humanity |-> Int2R(60), strict_trace |-> TRUE],
      [min_originality |-> Rat(6417, 100), max_ai |-> Int2R(30),
       min_humanity |-> Int2R(60), strict_trace |-> FALSE] }

\* frame and metrics before the first call
NoCall == [called |-> FALSE]

---------------------------------------------------------------------------
(* The calls.                                                              *)

Init ==
    /\ article \in Articles
    /\ sources \in SourceLists
    /\ thresholds \in ThresholdSets
    /\ tables = ModuleTables
    /\ calls = 0
    /\ frame = NoCall
    /\ metrics = NoCall
    /\ log = <<>>
    /\ ImagesIdle
    /\ CsvIdle

\* Fault variant of Evaluate: the call uses up the module's filler patterns.
EvaluateConsuming ==
    /\ calls = 0
    /\ frame' = evaluate_locals(article, sources, thresholds, tables)
    /\ metrics' = IF Raised(frame') THEN Exception ELSE MetricsOf(frame')
    /\ log' = Append(log, [article |-> article, sources |-> sources,
                           thresholds |-> thresholds, returned |-> metrics'])
    /\ calls' = calls + 1
    /\ tables' = [tables EXCEPT !.AI_FILLER_PATTERNS = <<>>]
    /\ UNCHANGED <<article, sources, thresholds, imagevars, csvvars>>

\* evaluate(article, sources, min_originality, max_ai, min_humanity,
\* strict_trace): it reads its arguments and the module's pattern lists, and
\* writes nothing but its locals and its return value.
Evaluate ==
    /\ calls = 0
    /\ frame' = evaluate_locals(article, sources, thresholds, tables)
    /\ metrics' = IF Raised(frame') THEN Exception ELSE MetricsOf(frame')
    /\ log' = Append(log, [article |-> article, sources |-> sources,
                           thresholds |-> thresholds, returned |-> metrics'])
    /\ calls' = calls + 1
    /\ UNCHANGED <<article, sources, thresholds, tables, imagevars, csvvars>>

Next == Evaluate

Spec == Init /\ [][Next]_vars

---------------------------------------------------------------------------
(* A session of several calls: after a call has returned, the caller binds *)
(* another article (or the same one again) and calls evaluate again.       *)

\* The articles of at most one block.
SessionArticles == {Flatten(bs) : bs \in SeqsUpTo(Blocks, 1)}

SessionSources == {<<>>, <<Plain>>, <<Trace>>}

InitSession ==
    /\ article \in SessionArticles
    /\ sources \in SessionSources
    /\ thresholds \in ThresholdSets
    /\ tables = ModuleTables
    /\ calls = 0
    /\ frame = NoCall
    /\ metrics = NoCall
    /\ log = <<>>
    /\ ImagesIdle
    /\ CsvIdle

Rebind(a) ==
    /\ calls > 0
    /\ Len(log) < MaxLog
    /\ article' = a
    /\ calls' = 0
    /\ UNCHANGED <<sources, thresholds, tables, frame, metrics, log, imagevars, csvvars>>

NextSession ==
    \/ Evaluate
    \/ \E a \in SessionArticles : Rebind(a)

SpecSession == InitSession /\ [][NextSession]_vars

\* Calls that differ in the order of the sources only: the articles of
\* MaxBlocks blocks at most, the lists of MaxOrderSources sources at most.
MaxOrderSources == 2

OrderArticles == {Flatten(bs) : bs \in SeqsUpTo({Plain, Story, Trace}, MaxBlocks)}

OrderSources == SeqsUpTo({Plain, Story}, MaxOrderSources)

InitOrder ==
    /\ article \in OrderArticles
    /\ sources \in OrderSources
    /\ thresholds \in ThresholdSets
    /\ tables = ModuleTables
    /\ calls = 0
    /\ frame = NoCall
    /\ metrics = NoCall
    /\ log = <<>>
    /\ ImagesIdle
    /\ CsvIdle

\* The bijections of 1..n.
Orders(n) ==
    {p \in [1..n -> 1..n] : \A i, j \in 1..n : p[i] = p[j] => i = j}

\* The next call gets the same sources in the order p.
Reorder(p) ==
    /\ calls > 0
    /\ Len(log) < MaxLog
    /\ p # [i \in 1..Len(sources) |-> i]
    /\ sources' = [i \in 1..Len(sources) |-> sources[p[i]]]
    /\ calls' = 0
    /\ UNCHANGED <<article, thresholds, tables, frame, metrics, log, imagevars, csvvars>>

NextOrder ==
    \/ Evaluate
    \/ \E p \in Orders(Len(sources)) : Reorder(p)

SpecOrder == InitOrder /\ [][NextOrder]_vars

---------------------------------------------------------------------------
(* Properties of the record evaluate returns.                              *)

\* The last call returned a Metrics record.
IsMetrics == "originality_score" \in DOMAIN metrics

InRange(x) == RLe(Int2R(0), x) /\ RLe(x, Int2R(100))

\* C1: whatever the article, the sources and the thresholds, the three scores
\* of the returned record lie in [0, 100].
C1_ScoresInRange ==
    IsMetrics =>
        /\ InRange(metrics.originality_score)
        /\ InRange(metrics.ai_tone_score)
        /\ InRange(metrics.humanity_score)

\* A call without sources and without trace phrase: the formula gives
\* 100 + 10 and the clamp brings the score back to 100.
C1_Witness ==
    /\ IsMetrics
    /\ sources = <<>>
    /\ frame.trace_hits = 0
    /\ metrics.originality_score = Int2R(100)

\* C2: the returned passed flag is true exactly when the three reported
\* scores meet the three thresholds.
C2_PassedOnReported ==
    IsMetrics =>
        (metrics.passed <=>
            /\ RLe(thresholds.min_originality, metrics.originality_score)
            /\ RLe(metrics.ai_tone_score, thresholds.max_ai)
            /\ RLe(thresholds.min_humanity, metrics.humanity_score))

\* C3: the returned risk level is "high" exactly when the reported AI-tone
\* score is at least 70, "medium" exactly from 40 up to 70, "low" exactly
\* below 40.
C3_RiskOnReported ==
    IsMetrics =>
        /\ metrics.ai_risk_level = "high" <=> RLe(Int2R(70), metrics.ai_tone_score)
        /\ metrics.ai_risk_level = "medium" <=>
               (RLe(Int2R(40), metrics.ai_tone_score)
                /\ RLt(metrics.ai_tone_score, Int2R(70)))
        /\ metrics.ai_risk_level = "low" <=> RLt(metrics.ai_tone_score, Int2R(40))

\* 100 - 40 overlap - 25 reuse - 15 structure - (10 if a trace phrase was
\* found) + 10 novelty, before any clamp.
FormulaOriginality(overlap, reuse_ratio, structure_sim, traced, novelty_ratio) ==
    RAdd(RSub(RSub(RSub(RSub(Int2R(100), RMul(Int2R(40), overlap)),
                        RMul(Int2R(25), reuse_ratio)),
                   RMul(Int2R(15), structure_sim)),
              IF traced THEN Int2R(10) ELSE Int2R(0)),
         RMul(Int2R(10), novelty_ratio))

Clamp0To100(x) ==
    IF RLt(x, Int2R(0)) THEN Int2R(0)
    ELSE IF RLt(Int2R(100), x) THEN Int2R(100) ELSE x

\* C4: an article with a source-trace phrase scores originality 0.0 under
\* strict_trace whatever its other signals are; without strict_trace the
\* phrase costs it the 10 points of the formula and nothing more.
C4_StrictTraceOverride ==
    (IsMetrics /\ metrics.source_trace_hits > 0) =>
        IF thresholds.strict_trace
        THEN metrics.originality_score = Int2R(0)
        ELSE LET untraced == FormulaOriginality(frame.overlap, frame.reuse_ratio,
                                                frame.structure_sim, FALSE,
                                                frame.novelty_ratio)
             IN  /\ frame.originality = Clamp0To100(RSub(untraced, Int2R(10)))
                 /\ metrics.originality_score =
                        Round(Clamp0To100(RSub(untraced, Int2R(10))), 2)

\* A strict call on an article with a trace phrase and no sources: every other
\* signal is at its best and the score is 0.
C4_Witness ==
    /\ IsMetrics
    /\ thresholds.strict_trace
    /\ metrics.source_trace_hits > 0
    /\ sources = <<>>
    /\ metrics.originality_score = Int2R(0)

\* C5: a call with no sources reports overlap 0.0, reuse ratio 0.0, novelty
\* ratio 1.0 and structure similarity 0.0.
C5_NoSourcesDefaults ==
    (IsMetrics /\ sources = <<>>) =>
        /\ metrics.ngram_overlap = Int2R(0)
        /\ metrics.sentence_reuse_ratio = Int2R(0)
        /\ metrics.novelty_ratio = Int2R(1)
        /\ metrics.structure_similarity = Int2R(0)

\* A call with no sources on an article that has sentences and headings.
C5_Witness ==
    /\ IsMetrics
    /\ sources = <<>>
    /\ split_sentences(article) # <<>>
    /\ heading_signature(article) # <<>>

\* Two calls of the log were given the same arguments.
SameArguments(c, d) ==
    /\ c.article = d.article
    /\ c.sources = d.sources
    /\ c.thresholds = d.thresholds

\* C6: two calls with the same article, sources and thresholds return records
\* equal field by field, whatever calls ran before or in between.
C6_Deterministic ==
    \A i, j \in 1..Len(log) :
        SameArguments(log[i], log[j]) => log[i].returned = log[j].returned

\* An article with filler phrases was evaluated, then another article, then
\* the first one again.
C6_Witness ==
    \E i, j, k \in 1..Len(log) :
        /\ i < j /\ j < k
        /\ SameArguments(log[i], log[k])
        /\ ~SameArguments(log[i], log[j])
        /\ log[i].returned.ai_filler_hits > 0

\* How many filler hits more are tried on the signals of a call.
MaxExtraHits == 12

\* The AI-tone score of the signals of the last call with the filler hits
\* replaced by h.
WithFillerHits(h) ==
    ai_score_of(h, frame.tpl_ratio, frame.ordered, frame.sentence_cv,
                frame.paragraph_cv, frame.lex_div, frame.domain_label,
                frame.emotion_density, frame.colloquial_ratio)

\* C7: with every other signal of a call held fixed, a larger count of filler
\* hits never gives a smaller AI-tone score, unrounded or reported.
C7_FillerMonotone ==
    IsMetrics =>
        \A more \in 1..MaxExtraHits :
            /\ RLe(frame.ai_score, WithFillerHits(frame.filler_hits + more))
            /\ RLe(metrics.ai_tone_score,
                   Round(WithFillerHits(frame.filler_hits + more), 2))

\* A call that found filler phrases, below the cap of the filler penalty: one
\* hit more gives a strictly larger score.
C7_Witness ==
    /\ IsMetrics
    /\ frame.filler_hits > 0
    /\ RLt(frame.ai_score, WithFillerHits(frame.filler_hits + 1))

\* C8: evaluate returns a Metrics record and never raises, whatever the
\* article and the sources are: every division and every max() has a value.
C8_NeverRaises ==
    calls > 0 =>
        /\ metrics # Exception
        /\ IsMetrics
        /\ ~Raised(frame)

\* The empty article against a list of one empty source has returned.
C8_Witness ==
    /\ calls > 0
    /\ article = <<>>
    /\ sources = << <<>> >>
    /\ IsMetrics

\* C9: unless strict_trace is on and a trace phrase was found, originality is
\* 100 - 40 overlap - 25 reuse - 15 structure - (10 if a trace phrase was
\* found) + 10 novelty, clamped to [0, 100].
C9_OriginalityFormula ==
    (IsMetrics /\ ~(thresholds.strict_trace /\ frame.trace_hits > 0)) =>
        LET formula == Clamp0To100(FormulaOriginality(frame.overlap, frame.reuse_ratio,
                                                      frame.structure_sim,
                                                      frame.trace_hits > 0,
                                                      frame.novelty_ratio))
        IN  /\ frame.originality = formula
            /\ metrics.originality_score = Round(formula, 2)

\* A call where every term of the formula counts and no clamp acts: overlap,
\* reuse, structure similarity, a trace phrase and novelty.
C9_Witness ==
    /\ IsMetrics
    /\ ~thresholds.strict_trace
    /\ RLt(Int2R(0), frame.overlap)
    /\ RLt(Int2R(0), frame.reuse_ratio)
    /\ RLt(Int2R(0), frame.structure_sim)
    /\ frame.trace_hits > 0
    /\ RLt(Int2R(0), frame.novelty_ratio)
    /\ RLt(Int2R(0), frame.originality)
    /\ RLt(frame.originality, Int2R(100))

\* min(35, 3.5 hits) + min(20, 50 template ratio) + (20 if the ordered
\* pattern occurs) + uniformity + diversity + style, the uniformity and the
\* diversity penalty scaled by 0.45 and 0.5 under the academic label.
FormulaAiTone(filler_hits, template_ratio, ordered, sentence_cv, paragraph_cv, lexical, label, emotion, colloquial) ==
    LET filler == RMin(Int2R(35), RMul(Rat(35, 10), Int2R(filler_hits)))
        template == RMin(Int2R(20), RMul(Int2R(50), template_ratio))
        pattern == IF ordered THEN Int2R(20) ELSE Int2R(0)
        uniformity ==
            (IF SurdLt(sentence_cv, Rat(28, 100)) THEN 12
             ELSE IF SurdLt(sentence_cv, Rat(38, 100)) THEN 6 ELSE 0)
            + (IF SurdLt(paragraph_cv, Rat(35, 100)) THEN 10
               ELSE IF SurdLt(paragraph_cv, Rat(50, 100)) THEN 5 ELSE 0)
        diversity ==
            IF RLt(lexical, Rat(11, 100)) THEN 12
            ELSE IF RLt(lexical, Rat(14, 100)) THEN 6 ELSE 0
        style ==
            IF label = "academic"
            THEN (IF RLt(emotion, Rat(6, 100)) THEN 2 ELSE 0)
            ELSE (IF RLt(emotion, Rat(15, 100)) THEN 8 ELSE 0)
                 + (IF RLt(colloquial, Rat(5, 100)) THEN 5 ELSE 0)
        scaled_uniformity ==
            IF label = "academic" THEN RMul(Rat(45, 100), Int2R(uniformity))
            ELSE Int2R(uniformity)
        scaled_diversity ==
            IF label = "academic" THEN RMul(Rat(5, 10), Int2R(diversity))
            ELSE Int2R(diversity)
    IN  RAdd(filler,
             RAdd(template,
                  RAdd(pattern,
                       RAdd(scaled_uniformity, RAdd(scaled_diversity, Int2R(style))))))

\* C10: the AI-tone score is the clamp to [0, 100] of the filler, template,
\* ordered-pattern, uniformity, diversity and style terms, with the
\* uniformity penalty times 0.45 and the diversity penalty times 0.5 under the
\* academic label.
C10_AiToneFormula ==
    IsMetrics =>
        LET formula == Clamp0To100(FormulaAiTone(frame.filler_hits, frame.tpl_ratio,
                                                 HasOrderedTemplate(article),
                                                 frame.sentence_cv, frame.paragraph_cv,
                                                 frame.lex_div, frame.domain_label,
                                                 frame.emotion_density,
                                                 frame.colloquial_ratio))
        IN  /\ frame.ai_score = formula
            /\ metrics.ai_tone_score = Round(formula, 2)

\* An academic article with filler hits whose uniformity and diversity
\* penalties are both scaled down.
C10_Witness ==
    /\ IsMetrics
    /\ frame.domain_label = "academic"
    /\ frame.filler_hits > 0
    /\ SurdLt(frame.sentence_cv, Rat(38, 100))
    /\ RLt(frame.lex_div, Rat(14, 100))

\* 50 + min(20, 8 scene) + min(20, 80 colloquial) + min(15, 4 stance hits)
\* + min(10, 3 emotion), less 20 under a sentence-length deviation of 6 (10
\* under 9), less 10 over a template ratio of 0.2, less 10 over an AI tone of 40.
FormulaHumanity(scene, colloquial, stance, emotion, deviation, template_ratio, ai_tone) ==
    LET gains == RAdd(Int2R(50),
                      RAdd(RMin(Int2R(20), RMul(Int2R(8), scene)),
                           RAdd(RMin(Int2R(20), RMul(Int2R(80), colloquial)),
                                RAdd(RMin(Int2R(15), Int2R(4 * stance)),
                                     RMin(Int2R(10), RMul(Int2R(3), emotion))))))
        flat == IF SurdLt(deviation, Int2R(6)) THEN 20
                ELSE IF SurdLt(deviation, Int2R(9)) THEN 10 ELSE 0
        templated == IF RLt(Rat(2, 10), template_ratio) THEN 10 ELSE 0
        machine == IF RLt(Int2R(40), ai_tone) THEN 10 ELSE 0
    IN  RSub(RSub(RSub(gains, Int2R(flat)), Int2R(templated)), Int2R(machine))

\* C11: the humanity score is the clamp to [0, 100] of 50 plus the scene,
\* colloquial, stance and emotion gains, less the deductions for a flat
\* sentence length, for template sentences and for an AI tone over 40.
C11_HumanityFormula ==
    IsMetrics =>
        LET formula == Clamp0To100(FormulaHumanity(frame.scene_density,
                                                   frame.colloquial_ratio,
                                                   frame.stance_hits,
                                                   frame.emotion_density,
                                                   frame.sentence_variation,
                                                   frame.tpl_ratio, frame.ai_score))
        IN  /\ frame.humanity = formula
            /\ metrics.humanity_score = Round(formula, 2)

\* A call where gains and deductions all act: colloquial, stance and emotion
\* tokens, template sentences and an AI tone over 40.
C11_Witness ==
    /\ IsMetrics
    /\ RLt(Int2R(0), frame.colloquial_ratio)
    /\ frame.stance_hits > 0
    /\ RLt(Int2R(0), frame.emotion_density)
    /\ RLt(Rat(2, 10), frame.tpl_ratio)
    /\ RLt(Int2R(40), frame.ai_score)
    /\ RLt(Int2R(0), frame.humanity)

\* C12: the label is "academic" whenever the academic density is at least
\* 0.45 (the narrative density may be too), "narrative" when only the
\* narrative density is, "general" otherwise; it is always one of the three.
C12_DomainLabel ==
    IsMetrics =>
        LET academic == RLe(Rat(45, 100), frame.academic_density)
            narrative == RLe(Rat(45, 100), frame.narrative_density)
        IN  /\ metrics.domain_label \in {"academic", "narrative", "general"}
            /\ metrics.domain_label = "academic" <=> academic
            /\ metrics.domain_label = "narrative" <=> (~academic /\ narrative)
            /\ metrics.domain_label = "general" <=> (~academic /\ ~narrative)

\* An article dense in academic and in narrative tokens alike: it is
\* labelled academic.
C12_Witness ==
    /\ IsMetrics
    /\ RLe(Rat(45, 100), frame.academic_density)
    /\ RLe(Rat(45, 100), frame.narrative_density)
    /\ metrics.domain_label = "academic"

\* C13 as the specification has it: for the dispersion statistics of a call,
\* the academic label gets a strictly smaller uniformity penalty and a
\* strictly smaller diversity penalty than the narrative label.
C13_StrictlySmaller ==
    IsMetrics =>
        /\ RLt(uniformity_penalty_of("academic", frame.sentence_cv, frame.paragraph_cv),
               uniformity_penalty_of("narrative", frame.sentence_cv, frame.paragraph_cv))
        /\ RLt(diversity_penalty_of("academic", frame.lex_div),
               diversity_penalty_of("narrative", frame.lex_div))

\* p is below q when q is positive, and both are 0 otherwise.
SmallerUnlessZero(p, q) ==
    IF RLt(Int2R(0), q) THEN RLt(p, q) ELSE p = Int2R(0) /\ q = Int2R(0)

\* C13: for the dispersion statistics of a call, the academic label never
\* gets a larger uniformity or diversity penalty than the narrative label:
\* each is strictly smaller when the narrative penalty is positive, and 0
\* when the narrative penalty is 0.
C13_DomainGating ==
    IsMetrics =>
        /\ SmallerUnlessZero(
               uniformity_penalty_of("academic", frame.sentence_cv, frame.paragraph_cv),
               uniformity_penalty_of("narrative", frame.sentence_cv, frame.paragraph_cv))
        /\ SmallerUnlessZero(
               diversity_penalty_of("academic", frame.lex_div),
               diversity_penalty_of("narrative", frame.lex_div))

\* A call whose statistics draw both penalties: uniform sentences and a
\* lexical diversity under 0.14.
C13_Witness ==
    /\ IsMetrics
    /\ SurdLt(frame.sentence_cv, Rat(38, 100))
    /\ RLt(frame.lex_div, Rat(14, 100))
    /\ RLt(diversity_penalty_of("academic", frame.lex_div),
           diversity_penalty_of("narrative", frame.lex_div))

\* C14: under the academic label the style penalty is 0, whatever the
\* emotion density and the colloquial ratio; under the other labels it is
\* 8 for an emotion density under 0.15 plus 5 for a colloquial ratio under
\* 0.05.
C14_AcademicStyleSkipped ==
    IsMetrics =>
        LET style == style_of(frame.domain_label, frame.emotion_density, frame.colloquial_ratio)
            full == (IF RLt(frame.emotion_density, Rat(15, 100)) THEN 8 ELSE 0)
                    + (IF RLt(frame.colloquial_ratio, Rat(5, 100)) THEN 5 ELSE 0)
        IN  IF frame.domain_label = "academic" THEN style = 0 ELSE style = full

\* The text, cut at its sentence terminators, is one or more sentences of one
\* length, at least 10 characters each, each beginning with 首先， 其次， or
\* 最后，.
ScenarioC(text) ==
    LET parts == ReSplit(text, Terminators)
        stripped == [k \in 1..Len(parts) |-> strip(parts[k])]
        sents == SelectSeq(stripped, LAMBDA p : Len(p) > 0)
    IN  /\ Len(sents) >= 1
        /\ \A k \in 1..Len(sents) :
               /\ Len(sents[k]) >= 10
               /\ Len(sents[k]) = Len(sents[1])
               /\ SubSeq(sents[k], 1, 3) \in
                      {<<"shou", "xian", "DOU">>, <<"qi", "ci", "DOU">>,
                       <<"zui", "hou", "DOU">>}

\* C15: an article made only of equal-length sentences that each begin with
\* 首先， 其次， or 最后， is reported with template_sentence_ratio 1.0, an
\* ai_tone_score of at least 70 and the risk level "high".
C15_ScenarioC ==
    (IsMetrics /\ ScenarioC(article)) =>
        /\ metrics.template_sentence_ratio = Int2R(1)
        /\ RLe(Int2R(70), metrics.ai_tone_score)
        /\ metrics.ai_risk_level = "high"

\* C16: without strict_trace, an article that is character for character its
\* single source is reported with ngram_overlap 1.0, sentence_reuse_ratio 1.0
\* and an originality_score of at most 10.
C16_ScenarioA ==
    (IsMetrics /\ sources = <<article>> /\ ~thresholds.strict_trace) =>
        /\ metrics.ngram_overlap = Int2R(1)
        /\ metrics.sentence_reuse_ratio = Int2R(1)
        /\ RLe(metrics.originality_score, Int2R(10))

\* C17: when the list of sources is not empty and every source in it is the
\* empty text, the call reports the signals of a call without sources:
\* ngram_overlap 0.0, sentence_reuse_ratio 0.0, novelty_ratio 1.0 and
\* structure_similarity 0.0.
C17_EmptySourceTexts ==
    (IsMetrics /\ Len(sources) > 0 /\ \A k \in 1..Len(sources) : sources[k] = <<>>) =>
        /\ metrics.ngram_overlap = Int2R(0)
        /\ metrics.sentence_reuse_ratio = Int2R(0)
        /\ metrics.novelty_ratio = Int2R(1)
        /\ metrics.structure_similarity = Int2R(0)

\* The sentences of the article and of the joined sources of the call.
ArticleSentences == split_sentences(article)

SourceSentences == split_sentences(Join(sources, <<"\n">>))

\* Sentence k of the article matches some source sentence at 0.85 or more.
IsReused(k) ==
    \E t \in 1..Len(SourceSentences) :
        RLe(Rat(85, 100), ratio(ArticleSentences[k], SourceSentences[t]))

\* Sentence k of the article matches every source sentence under 0.60.
IsNovel(k) ==
    \A t \in 1..Len(SourceSentences) :
        RLt(ratio(ArticleSentences[k], SourceSentences[t]), Rat(60, 100))

\* C18: the reuse ratio is the share of the article's sentences whose best
\* match over the source sentences is at least 0.85, the novelty ratio the
\* share of those whose best match is under 0.60; they are 0.0 and 1.0 when
\* the article or the sources have no sentence.
C18_SentenceReuse ==
    IsMetrics =>
        LET n == Len(ArticleSentences)
        IN  IF n = 0 \/ Len(SourceSentences) = 0
            THEN frame.reuse_ratio = Int2R(0) /\ frame.novelty_ratio = Int2R(1)
            ELSE /\ frame.reuse_ratio = Rat(Cardinality({k \in 1..n : IsReused(k)}), n)
                 /\ frame.novelty_ratio = Rat(Cardinality({k \in 1..n : IsNovel(k)}), n)

\* A call with a reused sentence, a novel sentence and a sentence whose best
\* match is exactly 0.60, neither reused nor novel.
C18_Witness ==
    /\ IsMetrics
    /\ Len(SourceSentences) > 0
    /\ \E k \in 1..Len(ArticleSentences) : IsReused(k)
    /\ \E k \in 1..Len(ArticleSentences) :
           /\ ~IsReused(k) /\ ~IsNovel(k)
           /\ \E t \in 1..Len(SourceSentences) :
                  ratio(ArticleSentences[k], SourceSentences[t]) = Rat(60, 100)

\* Hits per 100 characters of the normalized text, 0 for the empty one.
PerHundred(text, tokens) ==
    LET norm == normalize(text)
    IN  IF Len(norm) = 0 THEN Int2R(0)
        ELSE Rat(100 * CountTokens(norm, tokens), Len(norm))

\* C19: each density of a call is 100 * hits / L for the article's normalized
\* length L > 0, shorter than 100 characters or not, and 0 when L = 0.
C19_DensityPerHundred ==
    IsMetrics =>
        /\ frame.scene_density = PerHundred(article, tables.SCENE_TOKENS)
        /\ frame.emotion_density = PerHundred(article, tables.EMOTION_TOKENS)
        /\ frame.narrative_density = PerHundred(article, tables.NARRATIVE_TOKENS)
        /\ frame.academic_density = PerHundred(lower(article), tables.ACADEMIC_TOKENS)

\* The sum of the squared deviations from the mean, divided by n - 1.
SampleVariance(values) ==
    LET n == Len(values)
        s1 == SumSeq(values)
        s2 == SumSeq([k \in 1..n |-> values[k] * values[k]])
    IN  Rat(n * s2 - s1 * s1, n * (n - 1))

\* The lengths that evaluate hands to stddev and coef_var.
SentenceLengths ==
    [k \in 1..Len(ArticleSentences) |-> Len(normalize(ArticleSentences[k]))]

ParagraphLengths ==
    LET paragraphs == split_paragraphs(article)
    IN  [k \in 1..Len(paragraphs) |-> Len(normalize(paragraphs[k]))]

\* The sample deviation over the mean, as the root of their squares' quotient.
SampleCv(values) ==
    LET n == Len(values)
        s1 == SumSeq(values)
    IN  Surd(RMul(SampleVariance(values), Rat(n * n, s1 * s1)))

\* C20: over two or more sentence lengths, sentence_variation is the sample
\* standard deviation (squared deviations over n - 1) and sentence_cv is that
\* value over the mean; paragraph_cv likewise over the paragraph lengths.
C20_SampleDeviation ==
    IsMetrics =>
        /\ (Len(SentenceLengths) >= 2 /\ SumSeq(SentenceLengths) > 0) =>
               /\ frame.sentence_variation = Surd(SampleVariance(SentenceLengths))
               /\ frame.sentence_cv = SampleCv(SentenceLengths)
        /\ (Len(ParagraphLengths) >= 2 /\ SumSeq(ParagraphLengths) > 0) =>
               frame.paragraph_cv = SampleCv(ParagraphLengths)

\* C24: the two ratios of sentence_reuse lie in [0, 1] and sum to at most 1,
\* no sentence of the article is both reused and novel, and a reuse ratio of
\* 1 comes with a novelty ratio of 0.
C24_ReuseNoveltyDisjoint ==
    IsMetrics =>
        /\ RLe(Int2R(0), frame.reuse_ratio) /\ RLe(frame.reuse_ratio, Int2R(1))
        /\ RLe(Int2R(0), frame.novelty_ratio) /\ RLe(frame.novelty_ratio, Int2R(1))
        /\ RLe(RAdd(frame.reuse_ratio, frame.novelty_ratio), Int2R(1))
        /\ (Len(SourceSentences) > 0) =>
               \A k \in 1..Len(ArticleSentences) : ~(IsReused(k) /\ IsNovel(k))
        /\ (frame.reuse_ratio = Int2R(1)) => (frame.novelty_ratio = Int2R(0))

\* A call whose sentences are all reused, and so none novel.
C24_Witness ==
    /\ IsMetrics
    /\ Len(ArticleSentences) >= 2
    /\ frame.reuse_ratio = Int2R(1)
    /\ frame.novelty_ratio = Int2R(0)

\* C25: without strict_trace, or without a source trace phrase in the
\* article, the originality score is at least 10, before and after rounding.
C25_OriginalityFloor ==
    (IsMetrics /\ (~thresholds.strict_trace \/ frame.trace_hits = 0)) =>
        /\ RLe(Int2R(10), frame.originality)
        /\ RLe(Int2R(10), metrics.originality_score)

\* A call without strict_trace on a copy of its source that holds a source
\* trace phrase: every penalty is at its largest and the score is 10.
C25_Witness ==
    /\ IsMetrics
    /\ ~thresholds.strict_trace
    /\ frame.trace_hits > 0
    /\ frame.overlap = Int2R(1)
    /\ frame.reuse_ratio = Int2R(1)
    /\ frame.structure_sim = Int2R(1)
    /\ frame.novelty_ratio = Int2R(0)
    /\ metrics.originality_score = Int2R(10)

\* The list t holds the sources of the list s in another or the same order.
IsReordering(s, t) ==
    /\ Len(s) = Len(t)
    /\ \E p \in Orders(Len(s)) : \A i \in 1..Len(s) : t[i] = s[p[i]]

\* The 5-grams that lie inside one source of the list.
GramsInsideSources(srcs) ==
    UNION {char_ngrams(srcs[k], 5) : k \in 1..Len(srcs)}

\* C26: two calls with the same article and thresholds and the same sources
\* in any order return equal records, and every 5-gram that the overlap of a
\* call is taken with lies inside one of the sources.
C26_SourceOrder ==
    /\ \A i, j \in 1..Len(log) :
           (/\ log[i].article = log[j].article
            /\ log[i].thresholds = log[j].thresholds
            /\ IsReordering(log[i].sources, log[j].sources))
           => log[i].returned = log[j].returned
    /\ \A i \in 1..Len(log) :
           (\A k \in 1..Len(log[i].sources) : Len(normalize(log[i].sources[k])) >= 5)
           => char_ngrams(Join(log[i].sources, <<"\n">>), 5)
                  \subseteq GramsInsideSources(log[i].sources)

---------------------------------------------------------------------------
(* scripts/generate_images.py: one attempt of a task.                      *)
(*                                                                         *)
(* An outcome is what one requests.post / session.post gives: an HTTP      *)
(* response (kind "http") with its status and its body, or a raised        *)
(* timeout, connection error or other exception.  The body of a response   *)
(* is written by what the code reads of it:                                *)
(*   "image"      JSON whose first candidate holds inline image data       *)
(*   "no_image"   JSON of the expected shape, without image data           *)
(*   "odd_shape"  JSON whose shape makes .get fail (a list, a null part)   *)
(*   "not_json"   text that resp.json() / json.loads cannot read           *)
(*   "safety"     text holding the word safety                             *)
(*   "blocked"    text holding the word blocked, not safety                *)
(*   "plain"      any other text                                           *)
(* disk is what writing the image file does: "ok", or "full" when          *)
(* f.write raises after open() has created the file.                       *)

HttpOutcome(status, text, disk) ==
    [kind |-> "http", status |-> status, text |-> text, disk |-> disk]

RaisedOutcome(kind) ==
    [kind |-> kind, status |-> 0, text |-> "plain", disk |-> "ok"]

ApiOutcomes ==
    {HttpOutcome(200, "image", "ok"), HttpOutcome(200, "image", "full"),
     HttpOutcome(200, "no_image", "ok"), HttpOutcome(200, "odd_shape", "ok"),
     HttpOutcome(200, "not_json", "ok"),
     HttpOutcome(400, "safety", "ok"), HttpOutcome(400, "blocked", "ok"),
     HttpOutcome(400, "plain", "ok"),
     HttpOutcome(401, "plain", "ok"),
     HttpOutcome(403, "plain", "ok"), HttpOutcome(403, "safety", "ok"),
     HttpOutcome(404, "plain", "ok"),
     HttpOutcome(429, "plain", "ok"),
     HttpOutcome(500, "plain", "ok"), HttpOutcome(503, "safety", "ok"),
     RaisedOutcome("timeout"), RaisedOutcome("connection"),
     RaisedOutcome("exception")}

\* _parse_response: the image bytes ("bytes"), None ("none"), or the
\* AttributeError that its except clause does not catch ("raise").
_parse_response(text) ==
    IF text = "image" THEN "bytes"
    ELSE IF text = "odd_shape" THEN "raise"
    ELSE "none"

\* _classify_error: the APIError built for a status other than 200.
_classify_error(status_code, response_text) ==
    IF status_code = 401 \/ status_code = 403
    THEN [message |-> "key", status_code |-> status_code, retryable |-> FALSE]
    ELSE IF status_code = 429
    THEN [message |-> "rate_limit", status_code |-> status_code, retryable |-> TRUE]
    ELSE IF status_code >= 500
    THEN [message |-> "unavailable", status_code |-> status_code, retryable |-> TRUE]
    ELSE IF status_code = 400
    THEN IF response_text \in {"safety", "blocked"}
         THEN [message |-> "safety_filter", status_code |-> status_code, retryable |-> FALSE]
         ELSE [message |-> "bad_request", status_code |-> status_code, retryable |-> FALSE]
    ELSE [message |-> "unknown", status_code |-> status_code, retryable |-> FALSE]

\* What an attempt does: it returns a result with a status, or it falls
\* through to the back-off; write is what happened to the output file.
Returns(status, write) == [returns |-> TRUE, status |-> status, write |-> write]

FallsThrough(write) == [returns |-> FALSE, status |-> "none", write |-> write]

\* The body of the try statement for a response with status 200, the same
\* in both functions (lines 369-394 and 446-466).
attempt_ok(o) ==
    IF o.text = "not_json" THEN FallsThrough("none")
    ELSE LET image_bytes == _parse_response(o.text)
         IN  IF image_bytes = "raise" THEN FallsThrough("none")
             ELSE IF image_bytes = "bytes"
                  THEN IF o.disk = "ok" THEN Returns("success", "whole")
                       ELSE FallsThrough("partial")
                  ELSE Returns("filtered", "none")

\* One pass of the loop of generate_single_sync (lines 361-412).
attempt_sync(o) ==
    IF o.kind # "http" THEN FallsThrough("none")
    ELSE IF o.status = 200 THEN attempt_ok(o)
    ELSE LET error == _classify_error(o.status, o.text)
         IN  IF ~error.retryable
             THEN Returns(IF o.status = 400 /\ o.text = "safety" THEN "filtered" ELSE "failed", "none")
             ELSE FallsThrough("none")

\* One pass of the loop of _generate_single_async (lines 438-484).
attempt_async(o) ==
    IF o.kind # "http" THEN FallsThrough("none")
    ELSE IF o.status = 200 THEN attempt_ok(o)
    ELSE LET error == _classify_error(o.status, o.text)
         IN  IF ~error.retryable
             THEN Returns(IF o.text = "safety" THEN "filtered" ELSE "failed", "none")
             ELSE FallsThrough("none")

---------------------------------------------------------------------------
(* scripts/generate_images.py: the calls.                                  *)
(*                                                                         *)
(* A call is at "idle" before it starts, at "loop" at the head of its for  *)
(* loop, at "backoff" inside time.sleep / asyncio.sleep, and at "done"     *)
(* once it has returned.  The call named "sync" is generate_single_sync,   *)
(* every other one is _generate_single_async.                              *)

MaxRetries == 3

NoResult == [status |-> "none", retries |-> 0]

NewRun ==
    [pc |-> "idle", attempt |-> 0, sent |-> <<>>, writes |-> <<>>, result |-> NoResult]

IsSync(id) == id = "sync"

\* _build_url and _build_headers: the model in the URL and the key in the
\* Authorization header of every request.
Request == [model |-> config.default_model, api_key |-> config.api_key]

\* Fault variant of Enter: the call does not wait for a free slot.
EnterWithoutSlot(id) ==
    /\ id \in DOMAIN runs
    /\ runs[id].pc = "idle"
    /\ semaphore' = IF IsSync(id) THEN semaphore ELSE semaphore - 1
    /\ runs' = [runs EXCEPT ![id].pc = "loop"]
    /\ UNCHANGED <<config, served, gatevars, csvvars>>

\* The call starts; _generate_single_async enters `async with semaphore`
\* when a slot is free.
Enter(id) ==
    /\ id \in DOMAIN runs
    /\ runs[id].pc = "idle"
    /\ IsSync(id) \/ semaphore > 0
    /\ semaphore' = IF IsSync(id) THEN semaphore ELSE semaphore - 1
    /\ runs' = [runs EXCEPT ![id].pc = "loop"]
    /\ UNCHANGED <<config, served, gatevars, csvvars>>

\* One pass of the for loop: the request, the outcome o, and either the
\* return of a result or the way to the next pass (with a sleep unless
\* this was the last attempt).
Post(id, o) ==
    /\ id \in DOMAIN runs
    /\ runs[id].pc = "loop"
    /\ runs[id].attempt < config.max_retries
    /\ LET r == runs[id]
           a == IF IsSync(id) THEN attempt_sync(o) ELSE attempt_async(o)
           sent == Append(r.sent, Request)
           writes == IF a.write = "none" THEN r.writes ELSE Append(r.writes, a.write)
           last == ~(r.attempt < config.max_retries - 1)
       IN  IF a.returns
           THEN /\ runs' = [runs EXCEPT ![id] =
                               [r EXCEPT !.pc = "done", !.sent = sent, !.writes = writes,
                                         !.result = [status |-> a.status, retries |-> r.attempt]]]
                /\ semaphore' = IF IsSync(id) THEN semaphore ELSE semaphore + 1
           ELSE /\ runs' = [runs EXCEPT ![id] =
                               [r EXCEPT !.pc = IF last THEN "loop" ELSE "backoff",
                                         !.attempt = IF last THEN r.attempt + 1 ELSE r.attempt,
                                         !.sent = sent, !.writes = writes]]
                /\ UNCHANGED semaphore
    /\ UNCHANGED <<config, gatevars, csvvars>>

\* The sleep of the back-off ends and the loop goes to its next attempt.
Wake(id) ==
    /\ id \in DOMAIN runs
    /\ runs[id].pc = "backoff"
    /\ runs' = [runs EXCEPT ![id].pc = "loop", ![id].attempt = @ + 1]
    /\ UNCHANGED <<config, served, semaphore, gatevars, csvvars>>

\* Fault variant of Exhaust: the result counts the waits between the
\* attempts, one fewer than the attempts.
ExhaustCountingWaits(id) ==
    /\ id \in DOMAIN runs
    /\ runs[id].pc = "loop"
    /\ runs[id].attempt >= config.max_retries
    /\ runs' = [runs EXCEPT ![id].pc = "done",
                            ![id].result = [status |-> "failed", retries |-> config.max_retries - 1]]
    /\ semaphore' = IF IsSync(id) THEN semaphore ELSE semaphore + 1
    /\ UNCHANGED <<config, served, gatevars, csvvars>>

\* The loop has used its attempts: the slot is given back and the result
\* "failed" is returned (lines 420-425 and 491-496).
Exhaust(id) ==
    /\ id \in DOMAIN runs
    /\ runs[id].pc = "loop"
    /\ runs[id].attempt >= config.max_retries
    /\ runs' = [runs EXCEPT ![id].pc = "done",
                            ![id].result = [status |-> "failed", retries |-> config.max_retries]]
    /\ semaphore' = IF IsSync(id) THEN semaphore ELSE semaphore + 1
    /\ UNCHANGED <<config, served, gatevars, csvvars>>

\* The outcome of an attempt: the one the API gave to this attempt of the
\* other call, or a new one.
Script(id, o) ==
    LET k == runs[id].attempt + 1
    IN  IF k <= Len(served) THEN o = served[k] /\ UNCHANGED served
        ELSE served' = Append(served, o)

PostScripted(id, o) == Script(id, o) /\ Post(id, o)

\* evaluate has no arguments and has not been called.
GateIdle ==
    /\ article = <<>>
    /\ sources = <<>>
    /\ thresholds = [min_originality |-> Int2R(70), max_ai |-> Int2R(30),
                     min_humanity |-> Int2R(60), strict_trace |-> FALSE]
    /\ tables = ModuleTables
    /\ calls = 0
    /\ frame = NoCall
    /\ metrics = NoCall
    /\ log = <<>>

\* A generator built from a valid configuration file.
BuiltConfig(max_retries, max_concurrent) ==
    [stage |-> "built", api_url |-> "https://yunwu.ai", api_key |-> "key",
     default_model |-> "gemini-3-pro-image-preview",
     max_retries |-> max_retries, max_concurrent |-> max_concurrent]

\* One task, given first to generate_single_sync and then, with the same
\* outcomes, to _generate_single_async under a semaphore with a free slot.
InitSingle ==
    /\ \E n \in 0..MaxRetries : config = BuiltConfig(n, 1)
    /\ served = <<>>
    /\ runs = [id \in {"sync", "async"} |-> NewRun]
    /\ semaphore = 1
    /\ GateIdle
    /\ CsvIdle

EnterSync == Enter("sync")

EnterAsync == runs["sync"].pc = "done" /\ Enter("async")

NextSingle ==
    \/ EnterSync
    \/ EnterAsync
    \/ \E id \in DOMAIN runs, o \in ApiOutcomes : PostScripted(id, o)
    \/ \E id \in DOMAIN runs : Wake(id)
    \/ \E id \in DOMAIN runs : Exhaust(id)

SpecSingle == InitSingle /\ [][NextSingle]_vars

\* requests.post has a timeout and the sleeps are finite: a call that can
\* take a step takes it.
SpecSingleFair == SpecSingle /\ WF_vars(NextSingle)

\* _generate_batch_async: MaxTasks tasks at most, each in its own
\* _generate_single_async, under one semaphore of max_concurrent slots.
MaxTasks == 3

MaxConcurrent == 2

BatchRetries == 2

\* The task_id of the tasks of a batch.
TaskIds == <<"img-01", "img-02", "img-03", "img-04", "img-05", "img-06">>

BatchOutcomes ==
    {HttpOutcome(200, "image", "ok"), HttpOutcome(403, "plain", "ok"),
     HttpOutcome(429, "plain", "ok"), RaisedOutcome("timeout")}

InitBatch ==
    /\ \E c \in 1..MaxConcurrent :
           /\ config = BuiltConfig(BatchRetries, c)
           /\ semaphore = c
    /\ served = <<>>
    /\ \E n \in 1..MaxTasks : runs = [id \in {TaskIds[i] : i \in 1..n} |-> NewRun]
    /\ GateIdle
    /\ CsvIdle

\* A response of the API to a task of the batch.
PostOwn(id, o) == Post(id, o) /\ UNCHANGED served

NextBatch ==
    \/ \E id \in DOMAIN runs : Enter(id)
    \/ \E id \in DOMAIN runs, o \in BatchOutcomes : PostOwn(id, o)
    \/ \E id \in DOMAIN runs : Wake(id)
    \/ \E id \in DOMAIN runs : Exhaust(id)

SpecBatch == InitBatch /\ [][NextBatch]_vars

---------------------------------------------------------------------------
(* Properties of the request and retry loops.                              *)

\* The outcomes that the attempts of a call have met, in order.
OutcomesOf(id) == SubSeq(served, 1, Len(runs[id].sent))

\* An outcome that the loop answers with another attempt: HTTP 429, a
\* status of 500 or more, a timeout, a connection error, or an exception
\* (raised by the transport, or while the response is read or the image
\* is written).
FailsRetryably(o) ==
    \/ o.kind \in {"timeout", "connection", "exception"}
    \/ o.kind = "http" /\ (o.status = 429 \/ o.status >= 500)
    \/ o.kind = "http" /\ o.status = 200 /\ o.text \in {"not_json", "odd_shape"}
    \/ o.kind = "http" /\ o.status = 200 /\ o.text = "image" /\ o.disk = "full"

AllReturned == \A id \in DOMAIN runs : runs[id].pc = "done"

\* What C21 says of every state of a call.
RetryBounded ==
    \A id \in DOMAIN runs :
        LET r == runs[id]
            seen == OutcomesOf(id)
        IN  /\ Len(r.sent) <= config.max_retries
            /\ (r.pc = "done") =>
                   /\ r.result.status \in {"success", "failed", "filtered"}
                   /\ (\A k \in 1..Len(seen) : FailsRetryably(seen[k])) =>
                          (r.result.status = "failed" /\ r.result.retries = config.max_retries)
                   /\ (r.result.status = "success") =>
                          /\ r.result.retries = Len(seen) - 1
                          /\ \A k \in 1..(Len(seen) - 1) : FailsRetryably(seen[k])

\* C21: whatever the outcomes, a call sends at most max_retries requests and
\* then returns a result; if every attempt failed retryably the result is
\* "failed" with retries = max_retries, and a "success" carries the number
\* of failed attempts before it.
C21_RetryTerminates == []RetryBounded /\ <>[]AllReturned

\* Both calls returned "failed" after max_retries = MaxRetries retryable
\* failures.
C21_Witness ==
    /\ AllReturned
    /\ config.max_retries = MaxRetries
    /\ \A id \in DOMAIN runs :
           /\ runs[id].result = [status |-> "failed", retries |-> MaxRetries]
           /\ Len(runs[id].sent) = MaxRetries

\* The outcomes that C22 calls non-retryable: HTTP 401 or 403, HTTP 400, any
\* other status under 500 that is neither 200 nor 429, and HTTP 200 without
\* image data.
EndsTheTask(o) ==
    /\ o.kind = "http"
    /\ \/ o.status \in {401, 403}
       \/ o.status = 400
       \/ o.status # 200 /\ o.status < 500 /\ o.status # 429
       \/ o.status = 200 /\ o.text # "image"

\* The outcomes after which C22 allows another attempt.
AllowsAnotherAttempt(o) ==
    \/ o.kind \in {"timeout", "connection", "exception"}
    \/ o.kind = "http" /\ (o.status = 429 \/ o.status >= 500)
    \/ o.kind = "http" /\ o.status = 200 /\ o.text = "image" /\ o.disk = "full"

\* C22: in generate_single_sync no request follows a non-retryable outcome,
\* and a request follows an outcome only if that outcome was HTTP 429, a
\* status of 500 or more, a timeout, a connection error or an exception,
\* and attempts remained.
C22_NonRetryableEnds ==
    LET seen == OutcomesOf("sync")
    IN  \A k \in 1..Len(seen) :
            /\ EndsTheTask(seen[k]) => k = Len(seen)
            /\ (k < Len(seen)) => (AllowsAnotherAttempt(seen[k]) /\ k < config.max_retries)

\* C27: given the same outcomes, generate_single_sync and
\* _generate_single_async return the same status and the same retries.
C27_SyncAsyncEquivalent ==
    AllReturned =>
        /\ runs["sync"].result.status = runs["async"].result.status
        /\ runs["sync"].result.retries = runs["async"].result.retries

\* C28: a call that returned "failed" or "filtered" has not written to the
\* output file, and a call that returned "success" has written to it once,
\* on the attempt that received HTTP 200 with image data.
C28_WriteOnlyOnSuccess ==
    \A id \in DOMAIN runs :
        LET r == runs[id]
        IN  (r.pc = "done") =>
                /\ (r.result.status \in {"failed", "filtered"}) => r.writes = <<>>
                /\ (r.result.status = "success") =>
                       /\ Len(r.writes) = 1
                       /\ OutcomesOf(id)[Len(r.sent)].status = 200
                       /\ OutcomesOf(id)[Len(r.sent)].text = "image"

\* The tasks that are between their first request and their return.
InsideLoop == {id \in DOMAIN runs : runs[id].pc \in {"loop", "backoff"}}

\* C23: at every moment of a batch at most max_concurrent tasks are inside
\* their request and retry loop, the waits between retries included.
C23_AtMostMaxConcurrent ==
    /\ Cardinality(InsideLoop) <= config.max_concurrent
    /\ semaphore = config.max_concurrent - Cardinality(InsideLoop)

\* Every slot is taken, one of the holders is in the wait between two
\* attempts, and another task waits for a slot.
C23_Witness ==
    /\ Cardinality(InsideLoop) = config.max_concurrent
    /\ \E id \in DOMAIN runs : runs[id].pc = "backoff"
    /\ \E id \in DOMAIN runs : runs[id].pc = "idle"
    /\ \E id \in DOMAIN runs : runs[id].pc = "done"

---------------------------------------------------------------------------
(* The construction of an ImageGenerator: ConfigManager.load, validate and *)
(* the model override of ImageGenerator.__init__ (generate_images.py).     *)
(* A configuration file is absent or holds some of the keys; the value of  *)
(* a key is what yaml.safe_load returns for it.  The override is <<>> for  *)
(* model=None and <<m>> for model=m.                                       *)

valid_models == {"gemini-3-pro-image-preview", "gemini-3.1-flash-image-preview"}

DEFAULT_CONFIG ==
    [api_url |-> "https://yunwu.ai", api_key |-> "",
     default_model |-> "gemini-3-pro-image-preview",
     max_concurrent |-> 3, max_retries |-> 3]

\* The values a file may give to a key.
FileValues(key) ==
    CASE key = "api_key" -> {"", "key"}
      [] key = "api_url" -> {"", "https://yunwu.ai"}
      [] key = "default_model" -> valid_models \cup {"", "dall-e-3"}

FileKeys == {"api_key", "api_url", "default_model"}

\* The configuration files: none, or one with any of the keys (the empty
\* one is the file for which yaml.safe_load returns None).
ConfigFiles ==
    {[exists |-> FALSE, yaml |-> <<>>]} \cup
    {[exists |-> TRUE, yaml |-> f] :
        f \in UNION {{g \in [K -> UNION {FileValues(k) : k \in FileKeys}] :
                         \A k \in K : g[k] \in FileValues(k)} : K \in SUBSET FileKeys}}

\* The model argument of the constructor.
ModelOverrides == {<<>>} \cup {<<m>> : m \in valid_models \cup {"", "dall-e-3"}}

\* ConfigManager.load on a file that exists: the file's keys, and the
\* defaults for the keys it lacks.
load(yaml) ==
    [key \in DOMAIN DEFAULT_CONFIG |->
        IF key \in DOMAIN yaml THEN yaml[key] ELSE DEFAULT_CONFIG[key]]

\* ConfigManager.validate: TRUE when it returns, FALSE when it raises
\* ConfigError.
validate(cfg) ==
    /\ cfg["api_key"] # ""
    /\ cfg["api_url"] # ""
    /\ cfg["default_model"] \in valid_models

\* ImageGenerator.__init__: load, validate, then the override when it is
\* truthy.  A missing file is answered with the template and ConfigError.
ImageGenerator(file, model) ==
    IF ~file.exists THEN [stage |-> "ConfigError", template |-> TRUE]
    ELSE LET cfg == load(file.yaml)
         IN  IF ~validate(cfg) THEN [stage |-> "ConfigError", template |-> FALSE]
             ELSE [stage |-> "built", api_url |-> cfg["api_url"], api_key |-> cfg["api_key"],
                   default_model |-> IF model # <<>> /\ model[1] # "" THEN model[1]
                                     ELSE cfg["default_model"],
                   max_retries |-> cfg["max_retries"],
                   max_concurrent |-> cfg["max_concurrent"]]

InitConstruct ==
    /\ \E file \in ConfigFiles, model \in ModelOverrides :
           config = [stage |-> "args", file |-> file, model |-> model]
    /\ served = <<>>
    /\ runs = [id \in {"sync"} |-> NewRun]
    /\ semaphore = 0
    /\ GateIdle
    /\ CsvIdle

Construct ==
    /\ config.stage = "args"
    /\ config' = ImageGenerator(config.file, config.model)
    /\ UNCHANGED <<served, runs, semaphore, gatevars, csvvars>>

\* generate_single_sync on the generator that was constructed.
Generate == config.stage = "built" /\ Enter("sync")

NextConstruct ==
    \/ Construct
    \/ Generate
    \/ \E o \in BatchOutcomes : PostOwn("sync", o)
    \/ Wake("sync")
    \/ Exhaust("sync")

SpecConstruct == InitConstruct /\ [][NextConstruct]_vars

\* C29: a generator that was constructed has a model of the list checked by
\* validate and a non-empty api_key, and so has every request it sends, for
\* every configuration file and every model override; a construction with
\* another model ends in ConfigError.
C29_ValidModelOnly ==
    /\ config.stage = "built" =>
           config.default_model \in valid_models /\ config.api_key # ""
    /\ \A id \in DOMAIN runs : \A k \in 1..Len(runs[id].sent) :
           /\ runs[id].sent[k].model \in valid_models
           /\ runs[id].sent[k].api_key # ""

---------------------------------------------------------------------------
(* The three Markdown parsers: parse_materials (export_materials_csv.py),  *)
(* parse_titles (export_titles_csv.py) and parse_markdown                  *)
(* (export_golden_sentences_csv.py).  A text is the sequence of its lines  *)
(* (markdown.splitlines()); a line is the sequence of its tokens, without  *)
(* the white space between them, and a matched group is the sequence of    *)
(* the tokens it spans.  The token "FENCE" is the three backquotes, "LQ"   *)
(* and "RQ" are the quotation marks of a golden sentence, "LB" and "RB"    *)
(* the marks around a title.                                               *)

MaxLines == 4

Has(line, token) == \E i \in 1..Len(line) : line[i] = token

\* line.strip().startswith("```")
IsFence(line) == Len(line) > 0 /\ line[1] = "FENCE"

\* The index of the first colon of a line, 0 when it has none.
FirstColon(line) ==
    IF Has(line, ":") THEN CHOOSE i \in 1..Len(line) :
                               line[i] = ":" /\ \A j \in 1..(i - 1) : line[j] # ":"
    ELSE 0

\* The head of the loop of each parser: the fence test, the fence skip, the
\* comment test and the comment skip, in this order.  The result is the two
\* flags after the line and whether the line was skipped (continue).
FenceAndComment(in_fence, in_comment, line) ==
    IF IsFence(line)
    THEN [in_fence |-> ~in_fence, in_comment |-> in_comment, skipped |-> TRUE]
    ELSE IF in_fence
    THEN [in_fence |-> TRUE, in_comment |-> in_comment, skipped |-> TRUE]
    ELSE IF in_comment \/ Has(line, "<!--")
    THEN [in_fence |-> FALSE, in_comment |-> ~Has(line, "-->"), skipped |-> TRUE]
    ELSE [in_fence |-> FALSE, in_comment |-> FALSE, skipped |-> FALSE]

\* The text of the bracketed tokens: (M-\d{3}), (\d{4}-\d{2}-\d{2}) and the
\* (\d+) of a use count.
MaterialIds == ("[M-001]" :> "M-001") @@ ("[M-002]" :> "M-002")

EntryDates == ("[2024-01-02]" :> "2024-01-02")

SentenceDates == ("(2024-01-02)" :> "2024-01-02")

UseCounts == ("[yiyong 2 ci]" :> "2")

\* --- export_materials_csv.py ---

MaterialColumns ==
    {"id", "category", "summary", "source", "track", "use_type", "tags",
     "quality", "added_date", "used_in"}

MaterialKeys ==
    ("laiyuan" :> "source") @@ ("saidao" :> "track") @@ ("shiyongleixing" :> "use_type")
    @@ ("biaoqian" :> "tags") @@ ("zhiliangfen" :> "quality")
    @@ ("tianjiariqi" :> "added_date") @@ ("yiyongyu" :> "used_in")

\* HEADING_RE = ^##\s*(.+?)\s*$ : "##" and a non-empty rest; a line that
\* starts with "###" matches too, with "#" as the start of the group.
MaterialHeading(line) ==
    IF Len(line) >= 2 /\ line[1] = "##" THEN <<Tail(line)>>
    ELSE IF Len(line) >= 1 /\ line[1] = "###" THEN <<(<<"#">> \o Tail(line))>>
    ELSE <<>>

\* ENTRY_RE = ^\s*-\s*\[(M-\d{3})\]\s*(.+?)\s*$
MaterialEntry(line) ==
    Len(line) >= 3 /\ line[1] = "-" /\ line[2] \in DOMAIN MaterialIds

\* FIELD_RE = ^\s*([^:]+)\s*[:]\s*(.*)$ : a key before the first colon.
MaterialField(line) == FirstColon(line) >= 2

RECURSIVE materials_loop(_, _, _)
materials_loop(lines, k, st) ==
    IF k > Len(lines) THEN st
    ELSE LET line == lines[k]
             f == FenceAndComment(st.in_fence, st.in_comment, line)
             flags == [st EXCEPT !.in_fence = f.in_fence, !.in_comment = f.in_comment]
             colon == FirstColon(line)
             key == SubSeq(line, 1, colon - 1)
         IN  materials_loop(lines, k + 1,
               IF f.skipped THEN flags
               ELSE IF MaterialHeading(line) # <<>>
               THEN [flags EXCEPT !.category = MaterialHeading(line)[1]]
               ELSE IF MaterialEntry(line)
               THEN [flags EXCEPT
                        !.rows = st.rows \o st.current,
                        !.current = <<[[column \in MaterialColumns |-> <<>>] EXCEPT
                                          !["id"] = <<MaterialIds[line[2]]>>,
                                          !["summary"] = SubSeq(line, 3, Len(line)),
                                          !["category"] = st.category]>>]
               ELSE IF st.current = <<>> THEN flags
               ELSE IF MaterialField(line) /\ Len(key) = 1 /\ key[1] \in DOMAIN MaterialKeys
               THEN [flags EXCEPT !.current[1][MaterialKeys[key[1]]] =
                                       SubSeq(line, colon + 1, Len(line))]
               ELSE flags)

\* current is <<>> for None and <<row>> for a row.
parse_materials(lines) ==
    LET st == materials_loop(lines, 1,
                  [rows |-> <<>>, current |-> <<>>, category |-> <<>>,
                   in_comment |-> FALSE, in_fence |-> FALSE])
    IN  st.rows \o st.current

\* --- export_titles_csv.py ---

TitleColumns ==
    {"date", "topic", "final_title", "candidate_titles", "user_change", "article_type",
     "reads", "open_rate", "shares", "title_technique", "hook_elements", "rating"}

TitleKeys ==
    ("zuizhongbiaoti" :> "final_title") @@ ("beixuanbiaoti" :> "candidate_titles")
    @@ ("yonghuxiugai" :> "user_change") @@ ("wenzhangleixing" :> "article_type")
    @@ ("shiyongdebiaotijiqiao" :> "title_technique")
    @@ ("shiyongdeleijiyaosu" :> "hook_elements") @@ ("xiaoguopingji" :> "rating")

MetricKeys ==
    ("yueduliang" :> "reads") @@ ("dakailv" :> "open_rate") @@ ("fenxiangshu" :> "shares")

\* ENTRY_RE = ^###\s*\[(\d{4}-\d{2}-\d{2})\]\s*(.+?)\s*$
TitleEntry(line) ==
    Len(line) >= 3 /\ line[1] = "###" /\ line[2] \in DOMAIN EntryDates

\* FIELD_RE = ^\s*-\s*\*\*([^*]+)\*\*\s*[:]\s*(.*)$
TitleField(line) ==
    /\ Len(line) >= 5
    /\ line[1] = "-" /\ line[2] = "**" /\ line[3] # "**" /\ line[4] = "**" /\ line[5] = ":"

\* SUB_FIELD_RE = ^\s*-\s*([^:]+)\s*[:]\s*(.*)$
TitleSubField(line) == Len(line) >= 3 /\ line[1] = "-" /\ FirstColon(line) >= 3

RECURSIVE titles_loop(_, _, _)
titles_loop(lines, k, st) ==
    IF k > Len(lines) THEN st
    ELSE LET line == lines[k]
             f == FenceAndComment(st.in_fence, st.in_comment, line)
             flags == [st EXCEPT !.in_fence = f.in_fence, !.in_comment = f.in_comment]
             colon == FirstColon(line)
             metric_key == SubSeq(line, 2, colon - 1)
         IN  titles_loop(lines, k + 1,
               IF f.skipped THEN flags
               ELSE IF TitleEntry(line)
               THEN [flags EXCEPT
                        !.rows = st.rows \o st.current,
                        !.current = <<[[column \in TitleColumns |-> <<>>] EXCEPT
                                          !["date"] = <<EntryDates[line[2]]>>,
                                          !["topic"] = SubSeq(line, 3, Len(line))]>>,
                        !.parsing_metrics = FALSE]
               ELSE IF st.current = <<>> THEN flags
               ELSE IF TitleField(line)
               THEN IF line[3] = "xiaoguoshuju" THEN [flags EXCEPT !.parsing_metrics = TRUE]
                    ELSE IF line[3] \in DOMAIN TitleKeys
                    THEN [flags EXCEPT !.parsing_metrics = FALSE,
                                       !.current[1][TitleKeys[line[3]]] =
                                           SubSeq(line, 6, Len(line))]
                    ELSE [flags EXCEPT !.parsing_metrics = FALSE]
               ELSE IF st.parsing_metrics /\ TitleSubField(line)
                       /\ Len(metric_key) = 1 /\ metric_key[1] \in DOMAIN MetricKeys
               THEN [flags EXCEPT !.current[1][MetricKeys[metric_key[1]]] =
                                       SubSeq(line, colon + 1, Len(line))]
               ELSE flags)

parse_titles(lines) ==
    LET st == titles_loop(lines, 1,
                  [rows |-> <<>>, current |-> <<>>, parsing_metrics |-> FALSE,
                   in_comment |-> FALSE, in_fence |-> FALSE])
    IN  st.rows \o st.current

\* --- export_golden_sentences_csv.py ---

\* HEADING_RE = ^##\s+(.+?)\s*$ : white space after "##", so "###" is no
\* heading here.
SentenceHeading(line) == Len(line) >= 2 /\ line[1] = "##"

\* ENTRY_RE: - "sentence" -- chuzi <title> (date) [yiyong n ci], the last
\* group optional.
SentenceEntry(line) ==
    /\ Len(line) \in {10, 11}
    /\ line[1] = "-" /\ line[2] = "LQ" /\ line[4] = "RQ" /\ line[5] = "--"
    /\ line[6] = "chuzi" /\ line[7] = "LB" /\ line[9] = "RB"
    /\ line[10] \in DOMAIN SentenceDates
    /\ Len(line) = 11 => line[11] \in DOMAIN UseCounts

RECURSIVE markdown_loop(_, _, _)
markdown_loop(lines, k, st) ==
    IF k > Len(lines) THEN st
    ELSE LET line == lines[k]
             f == FenceAndComment(st.in_fence, st.in_comment, line)
             flags == [st EXCEPT !.in_fence = f.in_fence, !.in_comment = f.in_comment]
         IN  markdown_loop(lines, k + 1,
               IF f.skipped THEN flags
               ELSE IF SentenceHeading(line) THEN [flags EXCEPT !.category = Tail(line)]
               ELSE IF ~SentenceEntry(line) THEN flags
               ELSE [flags EXCEPT !.rows = Append(st.rows,
                        [category |-> st.category, sentence |-> <<line[3]>>,
                         source_title |-> <<line[8]>>,
                         date |-> <<SentenceDates[line[10]]>>,
                         used_count |-> IF Len(line) = 11 THEN <<UseCounts[line[11]]>>
                                        ELSE <<"0">>])])

parse_markdown(lines) ==
    markdown_loop(lines, 1, [rows |-> <<>>, category |-> <<>>,
                             in_comment |-> FALSE, in_fence |-> FALSE]).rows

\* --- the texts ---

\* A fence line, the opening and the closing line of a comment, and a
\* comment on one line.
MarkupLines ==
    {<<"FENCE">>, <<"<!--", "note">>, <<"note", "-->">>, <<"<!--", "note", "-->">>}

MaterialLines ==
    {<<"##", "gushi">>, <<"-", "[M-001]", "alpha">>, <<"laiyuan", ":", "book">>}

TitleLines ==
    {<<"###", "[2024-01-02]", "topic">>, <<"-", "**", "zuizhongbiaoti", "**", ":", "T">>,
     <<"-", "**", "xiaoguoshuju", "**", ":">>, <<"-", "yueduliang", ":", "1000">>}

SentenceLines ==
    {<<"##", "gushi">>,
     <<"-", "LQ", "juzi", "RQ", "--", "chuzi", "LB", "biaoti", "RB", "(2024-01-02)",
       "[yiyong 2 ci]">>}

\* memory/materials.md, memory/titles.md and memory/golden-sentences.md of
\* at most MaxLines lines.
Texts ==
    UNION {SeqsUpTo(MarkupLines \cup own, MaxLines) :
               own \in {MaterialLines, TitleLines, SentenceLines}}

NotParsed == [by |-> "none", out |-> <<>>]

InitCsv ==
    /\ markdown \in Texts
    /\ rows = NotParsed
    /\ GateIdle
    /\ ImagesIdle

ParseMaterials ==
    /\ rows.by = "none"
    /\ rows' = [by |-> "parse_materials", out |-> parse_materials(markdown)]
    /\ UNCHANGED <<markdown, gatevars, imagevars>>

ParseTitles ==
    /\ rows.by = "none"
    /\ rows' = [by |-> "parse_titles", out |-> parse_titles(markdown)]
    /\ UNCHANGED <<markdown, gatevars, imagevars>>

ParseMarkdown ==
    /\ rows.by = "none"
    /\ rows' = [by |-> "parse_markdown", out |-> parse_markdown(markdown)]
    /\ UNCHANGED <<markdown, gatevars, imagevars>>

NextCsv == ParseMaterials \/ ParseTitles \/ ParseMarkdown

SpecCsv == InitCsv /\ [][NextCsv]_vars

\* The lines of a text that are neither inside a fenced block nor inside an
\* HTML comment: a block runs from a fence line to the next fence line, a
\* comment from the line with "<!--" to the next line with "-->", and the
\* lines inside the one do not open or close the other.
RECURSIVE Outside(_, _, _)
Outside(lines, k, region) ==
    IF k > Len(lines) THEN <<>>
    ELSE LET line == lines[k]
         IN  IF region = "fence"
             THEN Outside(lines, k + 1, IF IsFence(line) THEN "text" ELSE "fence")
             ELSE IF region = "comment"
             THEN Outside(lines, k + 1, IF Has(line, "-->") THEN "text" ELSE "comment")
             ELSE IF IsFence(line) THEN Outside(lines, k + 1, "fence")
             ELSE IF Has(line, "<!--")
             THEN Outside(lines, k + 1, IF Has(line, "-->") THEN "text" ELSE "comment")
             ELSE <<line>> \o Outside(lines, k + 1, "text")

\* C30: the rows a parser returns for a text are the rows it returns for
\* the text without the lines of its fenced blocks and HTML comments.
C30_FenceAndCommentIgnored ==
    /\ rows.by = "parse_materials" =>
           rows.out = parse_materials(Outside(markdown, 1, "text"))
    /\ rows.by = "parse_titles" =>
           rows.out = parse_titles(Outside(markdown, 1, "text"))
    /\ rows.by = "parse_markdown" =>
           rows.out = parse_markdown(Outside(markdown, 1, "text"))

====
